---- MODULE Spec2Model ----
(***************************************************************************)
(* A model of the generative-art-editor's dependency graph                 *)
(* (src/src/dependency_resolution.rs) and of the block evaluation engine   *)
(* (src/src/draw.rs, src/src/main.rs).                                     *)
(*                                                                         *)
(* Indices: Rust vectors are 0-based, TLA+ sequences 1-based.  A node      *)
(* index k of the model is the index k-1 of the source.  A reference to a  *)
(* node (&Node<T>) is modelled by the node's index in Graph::nodes, which  *)
(* is what the node's address identifies.                                  *)
(***************************************************************************)
EXTENDS Integers, Sequences, FiniteSets, TLC

VARIABLES
    nodes,      \* Graph::nodes: the sequence of Node records
    order,      \* the value last returned by calculate_order, if any
    valid,      \* the value last returned by is_order_valid, if any
    indices,    \* the value last returned by calculate_order_indices, if any
    ctx,        \* the BlockContext of the open timeline item
    current_id, \* CURRENT_ID, the counter behind get_id()
    pass,       \* what the last evaluation pass (BlockContext::run) did
    mouse_down, \* is_mouse_button_down(MouseButton::Left) as of the last frame
    tried,      \* the drag gesture last observed: what was dragged where
    rctx,       \* the BlockRunContext handed to the last evaluation pass
    timeline,   \* the Timeline: bar_pos, running and its fixed fields
    timeline_items, \* main's timeline_items: the TimelineItems, in order
    errors,     \* ErrorQueue::errors: the messages not yet dismissed
    ran,        \* the passes Timeline::run made in its last tick, in order
    ticks,      \* how many times Timeline::run has run
    failures,   \* how many passes of Timeline::run have returned an Err
    input_value, \* the InputValue a caller holds, if any
    got         \* what the accessor last called on value did, if any

\* The variables of the timeline, left alone by the editor of the open item.
timeline_vars == <<timeline, timeline_items, errors, ran, ticks, failures>>

\* The variables of a caller of the InputValue accessors.
value_vars == <<input_value, got>>

vars == <<nodes, order, valid, indices, ctx, current_id, pass, mouse_down, tried, rctx,
          timeline, timeline_items, errors, ran, ticks, failures, input_value, got>>

\* The variables of the evaluation engine; the graph's own operations, as the
\* unit tests drive them, run with no BlockContext and leave these alone.
engine_vars == <<ctx, current_id, pass, mouse_down, tried, rctx,
                 timeline, timeline_items, errors, ran, ticks, failures, input_value, got>>
\* The variables of a stand-alone Graph, left alone by the engine.
graph_vars == <<nodes, order, valid, indices>>

(***************************************************************************)
(* Bounds of the model.                                                    *)
(***************************************************************************)
\* SpecGraph: the largest number of nodes and of depends-on entries.
MaxNodes == 4
MaxDeps == 3
\* SpecSequences: the same for graphs whose sequences of nodes are checked.
MaxSeqNodes == 3
MaxSeqDeps == 2
MaxSeqLen == 3
\* SpecEdges: the same for graphs whose nodes carry payload values.
MaxValNodes == 2
MaxValDeps == 3
MaxValue == 2

(***************************************************************************)
(* Sequence helpers.                                                       *)
(***************************************************************************)
\* Vec::insert(index, element), with index counted from 1.
InsertAt(s, p, e) == SubSeq(s, 1, p - 1) \o <<e>> \o SubSeq(s, p, Len(s))

Range(s) == {s[k] : k \in DOMAIN s}

\* Number of occurrences of e in the sequence s.
RECURSIVE Count(_, _)
Count(s, e) ==
    IF s = <<>> THEN 0
    ELSE (IF Head(s) = e THEN 1 ELSE 0) + Count(Tail(s), e)

\* Position of e in s (0 when absent).
PosOf(s, e) ==
    IF \E k \in DOMAIN s : s[k] = e
    THEN CHOOSE k \in DOMAIN s : s[k] = e /\ \A m \in 1..(k - 1) : s[m] # e
    ELSE 0

(***************************************************************************)
(* dependency_resolution.rs: Node and Graph                                *)
(***************************************************************************)
\* Node<T>: a node as its From impls build it, with no edges.
Node(name, value) ==
    [name |-> name, value |-> value, depends_on |-> <<>>, is_dependent_of |-> <<>>]

\* SpecGraph builds a Graph<()> as the tests do (new_debug): every payload is
\* the unit value.
Unit == "unit"

\* The total number of depends_on entries of a graph.
RECURSIVE DepCount(_)
DepCount(g) ==
    IF g = <<>> THEN 0 ELSE Len(Head(g).depends_on) + DepCount(Tail(g))

\* The closure body of specify_dependencies and the body of add_dependency:
\* nodes[a].depends_on.push(b); nodes[b].is_dependent_of.push(a).
PushDependencyNoInverse(g, a, b) ==
    [g EXCEPT ![a].depends_on = Append(@, b)]

PushDependency(g, a, b) ==
    LET g1 == [g EXCEPT ![a].depends_on = Append(@, b)]
    IN  [g1 EXCEPT ![b].is_dependent_of = Append(@, a)]

\* DependencyChain::list_dep over a list of pairs, applied front to back.
RECURSIVE ListDep(_, _)
ListDep(g, deps) ==
    IF deps = <<>> THEN g
    ELSE ListDep(PushDependency(g, Head(deps)[1], Head(deps)[2]), Tail(deps))

\* nodes.iter().position(|n| n.value == v): the first node with that payload.
Position(g, v) ==
    IF \E k \in DOMAIN g : g[k].value = v
    THEN CHOOSE k \in DOMAIN g : g[k].value = v /\ \A m \in 1..(k - 1) : g[m].value # v
    ELSE 0

(***************************************************************************)
(* does_transient_dependency_exist recurses with no cycle guard.  The      *)
(* recursion is deterministic, so it never returns exactly when it reaches *)
(* a node whose depends_on list it is already scanning further up the call *)
(* stack before it has found the target: the inner call then repeats the   *)
(* outer one.  `active` is the set of nodes whose lists are being scanned  *)
(* on the call stack.  The result is "true", "false", or "overflow" (the   *)
(* unbounded recursion exhausts the stack and the process aborts).         *)
(***************************************************************************)
RECURSIVE does_transient_dependency_exist(_, _, _, _)
does_transient_dependency_exist(g, depends_on, i, active) ==
    IF depends_on = <<>> THEN "false"
    ELSE LET node_i == Head(depends_on) IN
         IF i = node_i THEN "true"
         ELSE IF node_i \in active THEN "overflow"
         ELSE LET r == does_transient_dependency_exist(
                           g, g[node_i].depends_on, i, active \cup {node_i})
              IN  IF r = "false"
                  THEN does_transient_dependency_exist(g, Tail(depends_on), i, active)
                  ELSE r

\* find_insert_index: the first position j of existing_list whose node
\* transitively depends on i, else one past the end.  0 stands for a call
\* that never returns.
RECURSIVE FindFrom(_, _, _, _)
FindFrom(g, existing_list, i, j) ==
    IF j > Len(existing_list) THEN Len(existing_list) + 1
    ELSE LET existing == existing_list[j]
             r == does_transient_dependency_exist(g, g[existing].depends_on, i, {existing})
         IN  IF r = "true" THEN j
             ELSE IF r = "overflow" THEN 0
             ELSE FindFrom(g, existing_list, i, j + 1)

find_insert_index_append(g, existing_list, i) == Len(existing_list) + 1

find_insert_index(g, existing_list, i) == FindFrom(g, existing_list, i, 1)

\* calculate_order: the loop over nodes.iter().enumerate(), from node_i on.
RECURSIVE OrderFrom(_, _, _)
OrderFrom(g, existing_list, node_i) ==
    IF node_i > Len(g) THEN [status |-> "ok", list |-> existing_list]
    ELSE LET insert_index == find_insert_index(g, existing_list, node_i) IN
         IF insert_index = 0 THEN [status |-> "overflow", list |-> <<>>]
         ELSE OrderFrom(g, InsertAt(existing_list, insert_index, node_i), node_i + 1)

calculate_order(g) == OrderFrom(g, <<>>, 1)

\* is_order_valid: every dependency of a node of the order is among the nodes
\* that precede it in the order (compared by address).
RECURSIVE ValidFrom(_, _, _)
ValidFrom(g, ord, k) ==
    IF k > Len(ord) THEN TRUE
    ELSE LET prior_node_addresses == {ord[m] : m \in 1..(k - 1)} IN
         IF \E d \in Range(g[ord[k]].depends_on) : d \notin prior_node_addresses
         THEN FALSE
         ELSE ValidFrom(g, ord, k + 1)

\* is_order_valid comparing the nodes by name and payload, not by address.
is_order_valid_by_value(g, ord) ==
    \A k \in DOMAIN ord : \A d \in Range(g[ord[k]].depends_on) :
        \E m \in 1..(k - 1) : /\ g[ord[m]].name = g[d].name
                              /\ g[ord[m]].value = g[d].value

is_order_valid(g, ord) == ValidFrom(g, ord, 1)

NoOrder == [status |-> "none", list |-> <<>>]

(***************************************************************************)
(* The operations of Graph as functions of the graph value.                *)
(***************************************************************************)
\* Graph::reset: self.nodes = vec![]
reset(g) == <<>>

\* Graph::add: push the node.
add(g, n) == Append(g, n)

\* Graph::specify_dependencies
specify_dependencies(g, deps) == ListDep(g, deps)

\* Graph::add_dependency: a depends on b, both found by payload; nothing
\* happens when either payload is absent.
add_dependency(g, a, b) ==
    LET a_ind == Position(g, a)
        b_ind == Position(g, b)
    IN  IF a_ind # 0 /\ b_ind # 0 THEN PushDependency(g, a_ind, b_ind) ELSE g

(***************************************************************************)
(* Operations on the graph.  An order returned by calculate_order borrows  *)
(* the graph, so every mutation happens with no order alive.               *)
(***************************************************************************)
Reset ==
    /\ nodes' = reset(nodes)
    /\ order' = NoOrder
    /\ indices' = NoOrder
    /\ valid' = "unset"
    /\ UNCHANGED engine_vars

Add(name, value, maxNodes) ==
    /\ Len(nodes) < maxNodes
    /\ nodes' = add(nodes, Node(name, value))
    /\ order' = NoOrder
    /\ indices' = NoOrder
    /\ valid' = "unset"
    /\ UNCHANGED engine_vars

\* An index past the end panics, so the handles are those the graph has issued.
SpecifyDependencies(deps, maxDeps) ==
    /\ DepCount(nodes) + Len(deps) <= maxDeps
    /\ \A k \in DOMAIN deps : deps[k][1] \in DOMAIN nodes /\ deps[k][2] \in DOMAIN nodes
    /\ nodes' = specify_dependencies(nodes, deps)
    /\ order' = NoOrder
    /\ indices' = NoOrder
    /\ valid' = "unset"
    /\ UNCHANGED engine_vars

AddDependency(a, b, maxDeps) ==
    /\ DepCount(nodes) < maxDeps
    /\ nodes' = add_dependency(nodes, a, b)
    /\ order' = NoOrder
    /\ indices' = NoOrder
    /\ valid' = "unset"
    /\ UNCHANGED engine_vars

\* let order = g.calculate_order();
CalculateOrder ==
    /\ order.status = "none"
    /\ order' = calculate_order(nodes)
    /\ UNCHANGED <<nodes, valid, indices>>
    /\ UNCHANGED engine_vars

\* g.is_order_valid(&order)
CheckOrder ==
    /\ order.status = "ok"
    /\ valid = "unset"
    /\ valid' = IF is_order_valid(nodes, order.list) THEN "true" ELSE "false"
    /\ UNCHANGED <<nodes, order, indices>>
    /\ UNCHANGED engine_vars

\* The pairs (a, b) over the indices 1..n, and the lists of one or two of them
\* that fit in `room` more entries (a longer list is a composition of these
\* calls).
Pairs(n) == (1..n) \X (1..n)
DepLists(n, room) ==
    (IF room >= 1 THEN {<<p>> : p \in Pairs(n)} ELSE {})
    \cup (IF room >= 2 THEN {<<p, q>> : p \in Pairs(n), q \in Pairs(n)} ELSE {})

\* BlockContext::new([]): no blocks, no connections, an empty graph.  An
\* Option is a sequence of at most one element, a HashMap a function on its
\* keys.  The field `aborted` is the model's: the process has died of a stack
\* overflow in calculate_order_indices.
EmptyContext ==
    [ currently_dragging |-> <<>>,
      blocks             |-> <<>>,
      connections        |-> {},
      input_output       |-> <<>>,
      inputs             |-> <<>>,
      graph              |-> <<>>,
      graph_order        |-> <<>>,
      block_ids          |-> <<>>,
      aborted            |-> FALSE ]

\* No error message: the kind of the error, the block it names, and the ids
\* and lengths it names.
NoError == [kind |-> "", block |-> 0, ids |-> <<>>, lens |-> <<>>]

\* No evaluation pass has run.  A pass is recorded by how it ended (result,
\* and the message of an Err), the block it was evaluating when it ended
\* early (at: <<>> or <<id>>), the calls of run functions it made, in order,
\* and previous_outputs as it stood at the end.
NoPass ==
    [result |-> "none", error |-> NoError, at |-> <<>>, calls |-> <<>>, outputs |-> <<>>,
     rng |-> <<>>]

\* static mut CURRENT_ID: usize = 0
FirstId == 0

\* Timeline::new(percentage_height): the bar at 0, thirty seconds long, not
\* running.  percentage_height is the pair <<p, q>> for p/q.
Timeline_new(percentage_height) ==
    [bar_pos |-> 0, max_height |-> 300, min_height |-> 80,
     percentage_height |-> percentage_height, total_time_secs |-> 30,
     running |-> FALSE]

\* The timeline where no tick is looked at: as main constructs it
\* (Timeline::new(0.25), ErrorQueue::default()), with the one item main
\* lays on it held in ctx and not listed.
TimelineAtRest ==
    /\ timeline = Timeline_new(<<1, 4>>)
    /\ timeline_items = <<>>
    /\ errors = <<>>
    /\ ran = <<>>
    /\ ticks = 0
    /\ failures = 0

\* No accessor is looked at: no value is held and none was accessed.
ValueAtRest ==
    /\ input_value = <<>>
    /\ got = <<>>

\* A test of the graph module: a fresh graph and no engine.
InitGraph ==
    /\ nodes = <<>>
    /\ order = NoOrder
    /\ indices = NoOrder
    /\ valid = "unset"
    /\ ctx = EmptyContext
    /\ current_id = FirstId
    /\ pass = NoPass
    /\ mouse_down = FALSE
    /\ tried = <<>>
    /\ rctx = <<>>
    /\ TimelineAtRest
    /\ ValueAtRest

NextGraph ==
    \/ Add("N", Unit, MaxNodes)
    \/ \E deps \in DepLists(Len(nodes), MaxDeps - DepCount(nodes)) :
          SpecifyDependencies(deps, MaxDeps)
    \/ Reset
    \/ CalculateOrder
    \/ CheckOrder

SpecGraph == InitGraph /\ [][NextGraph]_vars

(***************************************************************************)
(* Vocabulary of the properties: reachability along depends_on entries.    *)
(***************************************************************************)
DirectDeps(g, S) == UNION {Range(g[n].depends_on) : n \in S}

RECURSIVE Closure(_, _)
Closure(g, S) ==
    LET T == S \cup DirectDeps(g, S) IN IF T = S THEN S ELSE Closure(g, T)

\* The nodes a transitively depends on (paths of one or more entries).
TransDeps(g, a) == Closure(g, Range(g[a].depends_on))

Acyclic(g) == \A a \in DOMAIN g : a \notin TransDeps(g, a)

Unrelated(g, x, y) == x \notin TransDeps(g, y) /\ y \notin TransDeps(g, x)

\* Some entry points at a node that was added after its dependent.
HasBackwardEntry(g) == \E a \in DOMAIN g : \E b \in Range(g[a].depends_on) : b > a

(***************************************************************************)
(* C1: for an acyclic graph, whatever the insertion order of its nodes,    *)
(* calculate_order returns an order in which every recorded dependency of  *)
(* a node stands at a strictly earlier position than the node, and         *)
(* is_order_valid returns true on it.                                      *)
(***************************************************************************)
DependenciesEarlier(g, ord) ==
    \A k \in DOMAIN ord : \A d \in Range(g[ord[k]].depends_on) :
        PosOf(ord, d) # 0 /\ PosOf(ord, d) < k

C1_TopologicalValidity ==
    (order.status # "none" /\ Acyclic(nodes)) =>
        /\ order.status = "ok"
        /\ DependenciesEarlier(nodes, order.list)
        /\ valid # "unset" => valid = "true"

C1_Witness ==
    /\ Len(nodes) >= 3
    /\ DepCount(nodes) >= 2
    /\ Acyclic(nodes)
    /\ HasBackwardEntry(nodes)
    /\ order.status = "ok"
    /\ valid = "true"

(***************************************************************************)
(* C2 (as claimed): for a graph whose entries contain a cycle,             *)
(* calculate_order produces an order and is_order_valid returns false on   *)
(* it.                                                                     *)
(***************************************************************************)
C2_CycleFlaggedInvalid ==
    (order.status # "none" /\ ~Acyclic(nodes)) =>
        /\ order.status = "ok"
        /\ valid # "unset" => valid = "false"

(***************************************************************************)
(* C3 (as claimed): calculate_order returns on every graph, cyclic ones    *)
(* included, and the order it returns holds every node exactly once.       *)
(***************************************************************************)
IsPermutation(ord, n) ==
    /\ Len(ord) = n
    /\ \A i \in 1..n : Count(ord, i) = 1

C3_AlwaysReturns ==
    order.status # "none" =>
        /\ order.status = "ok"
        /\ IsPermutation(order.list, Len(nodes))

(***************************************************************************)
(* C4 (as claimed): two nodes X and Y with no dependency relation, X added *)
(* before Y, come out of calculate_order with X before Y.                  *)
(***************************************************************************)
C4_InsertionOrderKept ==
    order.status = "ok" =>
        \A x \in DOMAIN nodes : \A y \in DOMAIN nodes :
            (x < y /\ Unrelated(nodes, x, y)) =>
                PosOf(order.list, x) < PosOf(order.list, y)

(***************************************************************************)
(* C4 (amended): two nodes X and Y with no dependency relation, X added    *)
(* before Y, come out with X before Y exactly when no node that stands     *)
(* before X in the output transitively depends on Y.                       *)
(***************************************************************************)
DependentBefore(g, ord, x, y) ==
    \E w \in DOMAIN g :
        /\ PosOf(ord, w) < PosOf(ord, x)
        /\ y \in TransDeps(g, w)

C4_InsertionOrderKeptUnlessDependentBefore ==
    order.status = "ok" =>
        \A x \in DOMAIN nodes : \A y \in DOMAIN nodes :
            (x < y /\ Unrelated(nodes, x, y)) =>
                (PosOf(order.list, x) < PosOf(order.list, y)
                    <=> ~DependentBefore(nodes, order.list, x, y))

C4_Witness ==
    /\ order.status = "ok"
    /\ \E x \in DOMAIN nodes : \E y \in DOMAIN nodes :
          /\ x < y
          /\ Unrelated(nodes, x, y)
          /\ PosOf(order.list, y) < PosOf(order.list, x)
    /\ \E x \in DOMAIN nodes : \E y \in DOMAIN nodes :
          /\ x < y
          /\ Unrelated(nodes, x, y)
          /\ PosOf(order.list, x) < PosOf(order.list, y)

(***************************************************************************)
(* tests::complex_deps2: the five nodes A..E, added in any order, with the *)
(* test's dependency list given through the handles add returned.          *)
(***************************************************************************)
Deps2Names == {"A", "B", "C", "D", "E"}

\* The handle add returned for the node of that name.
Handle(g, name) == CHOOSE k \in DOMAIN g : g[k].name = name

\* vec![d.on(e), a.on(c), c.on(e), b.on(d), a.on(b)]
Deps2List(g) ==
    << <<Handle(g, "D"), Handle(g, "E")>>,
       <<Handle(g, "A"), Handle(g, "C")>>,
       <<Handle(g, "C"), Handle(g, "E")>>,
       <<Handle(g, "B"), Handle(g, "D")>>,
       <<Handle(g, "A"), Handle(g, "B")>> >>

AddNamed ==
    \E name \in Deps2Names :
        /\ \A k \in DOMAIN nodes : nodes[k].name # name
        /\ Add(name, Unit, Cardinality(Deps2Names))

SpecifyDeps2 ==
    /\ Len(nodes) = Cardinality(Deps2Names)
    /\ DepCount(nodes) = 0
    /\ SpecifyDependencies(Deps2List(nodes), Len(Deps2List(nodes)))

NextDeps2 ==
    \/ AddNamed
    \/ SpecifyDeps2
    \/ CalculateOrder
    \/ CheckOrder

SpecDeps2 == InitGraph /\ [][NextDeps2]_vars

NamesOf(g) == [k \in DOMAIN g |-> g[k].name]

(***************************************************************************)
(* C5: on the graph of complex_deps2, for every insertion order of the     *)
(* five nodes, calculate_order puts E first and A last and is_order_valid  *)
(* returns true.                                                           *)
(***************************************************************************)
C5_ComplexDeps2 ==
    (DepCount(nodes) > 0 /\ order.status # "none") =>
        /\ order.status = "ok"
        /\ Len(order.list) = Len(nodes)
        /\ nodes[order.list[1]].name = "E"
        /\ nodes[order.list[Len(nodes)]].name = "A"
        /\ valid # "unset" => valid = "true"

\* The test's own insertion order, checked.
C5_Witness ==
    /\ NamesOf(nodes) = <<"C", "B", "A", "E", "D">>
    /\ DepCount(nodes) > 0
    /\ order.status = "ok"
    /\ valid = "true"

(***************************************************************************)
(* Graphs whose nodes carry payloads (Graph<T>, T: PartialEq), mutated by  *)
(* all four operations.                                                    *)
(***************************************************************************)
Values == 1..MaxValue

NextEdges ==
    \/ \E v \in Values : Add("N", v, MaxValNodes)
    \/ \E deps \in DepLists(Len(nodes), MaxValDeps - DepCount(nodes)) :
          SpecifyDependencies(deps, MaxValDeps)
    \/ \E a \in Values : \E b \in Values : AddDependency(a, b, MaxValDeps)
    \/ Reset
    \/ CalculateOrder
    \/ CheckOrder

SpecEdges == InitGraph /\ [][NextEdges]_vars

(***************************************************************************)
(* C6: after any sequence of add, specify_dependencies, add_dependency and *)
(* reset, b occurs k times in nodes[a].depends_on exactly when a occurs k  *)
(* times in nodes[b].is_dependent_of.                                      *)
(***************************************************************************)
C6_EdgeListsSymmetric ==
    /\ \A a \in DOMAIN nodes :
          /\ Range(nodes[a].depends_on) \subseteq DOMAIN nodes
          /\ Range(nodes[a].is_dependent_of) \subseteq DOMAIN nodes
    /\ \A a \in DOMAIN nodes : \A b \in DOMAIN nodes :
          Count(nodes[a].depends_on, b) = Count(nodes[b].is_dependent_of, a)

\* A graph in which one node depends twice on another node and some node
\* depends on itself.
C6_Witness ==
    /\ Len(nodes) >= 2
    /\ \E a \in DOMAIN nodes : \E b \in DOMAIN nodes :
          a # b /\ Count(nodes[a].depends_on, b) = 2
    /\ \E a \in DOMAIN nodes : Count(nodes[a].is_dependent_of, a) = 1

(***************************************************************************)
(* The evaluation engine: values.                                          *)
(*                                                                         *)
(* An InputValue is a record of its variant (tag), its numeric payload in  *)
(* order (nums) and its strings (opts): Number(n) holds <<n>>, Point((x,   *)
(* y)) holds <<x, y>>, ListNumbers its numbers, ListPoints the coordinates *)
(* x1, y1, x2, y2, ... of its points, Color its four channels, Selection   *)
(* its index and its options.  Numbers are integers; the model's numbers   *)
(* are those an f64 holds exactly.                                         *)
(***************************************************************************)
Number(n) == [tag |-> "Number", nums |-> <<n>>, opts |-> <<>>]
Point(x, y) == [tag |-> "Point", nums |-> <<x, y>>, opts |-> <<>>]
ListNumbers(ns) == [tag |-> "ListNumbers", nums |-> ns, opts |-> <<>>]
RECURSIVE Coordinates(_)
Coordinates(pts) ==
    IF pts = <<>> THEN <<>> ELSE Head(pts) \o Coordinates(Tail(pts))
ListPoints(pts) == [tag |-> "ListPoints", nums |-> Coordinates(pts), opts |-> <<>>]

\* The points of a ListPoints value, in order.
RECURSIVE PointsOf(_)
PointsOf(ns) ==
    IF Len(ns) < 2 THEN <<>>
    ELSE << <<ns[1], ns[2]>> >> \o PointsOf(SubSeq(ns, 3, Len(ns)))

\* `x as f32` for an integer x: every integer below 2^24 in magnitude is an
\* f32; a larger one is rounded to the nearest multiple of the spacing of its
\* binade, a tie going to the even multiple.
F32Significand == 16777216
RECURSIVE F32Spacing(_, _)
F32Spacing(a, q) == IF a < F32Significand * q THEN q ELSE F32Spacing(a, 2 * q)
F32Magnitude(a) ==
    LET q == F32Spacing(a, 1)
        lo == (a \div q) * q
        r == a - lo
    IN  IF 2 * r < q THEN lo
        ELSE IF 2 * r > q THEN lo + q
        ELSE IF (a \div q) % 2 = 0 THEN lo ELSE lo + q
F32(x) == IF x >= 0 THEN F32Magnitude(x) ELSE 0 - F32Magnitude(0 - x)

\* InputValue::as_f32, as_f64, as_point: the payload of the expected variant,
\* and zero for any other variant.
as_f32(v) == IF v.tag = "Number" THEN F32(v.nums[1]) ELSE 0
as_f64(v) == IF v.tag = "Number" THEN v.nums[1] ELSE 0
as_point(v) == IF v.tag = "Point" THEN v.nums ELSE <<0, 0>>

\* The remaining variants and the From impls that build an InputValue.  A
\* Color holds its channels r, g, b, a; a Selection holds its index (from 0,
\* as the code counts) and its options.
Color(r, g, b, a) == [tag |-> "Color", nums |-> <<r, g, b, a>>, opts |-> <<>>]
Selection(i, options) == [tag |-> "Selection", nums |-> <<i>>, opts |-> options]
\* impl From<&[&str]> for InputValue: the first option is the selected one.
FromStrs(x) == Selection(0, x)

\* as_list_points, as_color: the payload of the expected variant, and the
\* empty list or Color::new(0.0, 0.0, 0.0, 0.0) for any other variant.
as_list_points(v) == IF v.tag = "ListPoints" THEN PointsOf(v.nums) ELSE <<>>
as_color(v) == IF v.tag = "Color" THEN v.nums ELSE <<0, 0, 0, 0>>

\* What a call of an accessor did: it returned a result, or it panicked.
Gave(x) == [returned |-> TRUE, result |-> <<x>>]
Panicked == [returned |-> FALSE, result |-> <<>>]

\* as_str: options[*i].as_str() for a Selection, an index past the end of
\* the options panicking (index out of bounds), and "" for any other variant.
as_str(v) ==
    IF v.tag = "Selection"
    THEN IF v.nums[1] < Len(v.opts) THEN Gave(v.opts[v.nums[1] + 1]) ELSE Panicked
    ELSE Gave("")

\* ChaCha8Rng::seed_from_u64(seed): the generator is where its seed puts it
\* and has drawn nothing.
seed_from_u64(seed) == [seed |-> seed, draws |-> 0]
\* The stream of a seed.  The model takes the binary digits of the seed for
\* it, lowest first: a stream that the seed fixes and that differs from
\* seed to seed.
StreamBit(seed, n) == (seed \div (2 ^ n)) % 2 = 1
\* rng.gen_bool(0.5): the next bit of the stream, and the generator after.
gen_bool(rng) ==
    [value |-> StreamBit(rng.seed, rng.draws), rng |-> [rng EXCEPT !.draws = @ + 1]]

\* BlockRunContext { screen_w, screen_h, percentage, rng } as Timeline::run
\* makes it for a pass.
BlockRunContext(screen_space, percentage, seed) ==
    [screen_w |-> screen_space[1], screen_h |-> screen_space[2],
     percentage |-> percentage, rng |-> seed_from_u64(seed)]

\* OutputResult::SingleValue(v) and OutputResult::Iteration(vs); the same two
\* records serve for InputResult, whose SingleValueOwned is a third kind.
SingleValue(v) == [kind |-> "SingleValue", vals |-> <<v>>]
Iteration(vs) == [kind |-> "Iteration", vals |-> vs]
SingleValueOwned(v) == [kind |-> "SingleValueOwned", vals |-> <<v>>]

\* HashMap::insert and HashMap::get on a map held as a function.
Insert(m, k, v) == [x \in (DOMAIN m) \cup {k} |-> IF x = k THEN v ELSE m[x]]
Contains(m, k) == k \in DOMAIN m

(***************************************************************************)
(* The evaluation engine: blocks.                                          *)
(***************************************************************************)
\* BlockConnectionNode::new_with_input_type; parent_id is Id(0) until the
\* block joins a context.  BlockConnectionNode::new is the same with
\* Number(0.0) for the value.
BlockConnectionNode(id, name, value, connection_type) ==
    [ id |-> id, parent_id |-> 0, name |-> name, value |-> value,
      connection_type |-> connection_type, is_dragging_line |-> FALSE ]

\* The blocks of the catalog that the model evaluates, as their
\* to_draggable_block builds them: flatten_inputs, the (name, value) of each
\* input and output port, and the run function.
IterationBlock ==
    [ name |-> "Iterate", flatten_inputs |-> FALSE, run_fn |-> "IterationBlock::run",
      inputs |-> << <<"pass", Number(0)>>, <<"start", Number(0)>>,
                    <<"end", Number(100)>>, <<"by", Number(10)>> >>,
      outputs |-> << <<"pass", Number(0)>>, <<"value", Number(0)>> >> ]

PtCombineBlock ==
    [ name |-> "PtCombine", flatten_inputs |-> FALSE, run_fn |-> "PtCombineBlock::run",
      inputs |-> << <<"x", Number(0)>>, <<"y", Number(0)>> >>,
      outputs |-> << <<"pt", Point(0, 0)>> >> ]

FlattenPointsBlock ==
    [ name |-> "FlattenPoints", flatten_inputs |-> TRUE, run_fn |-> "FlattenPointsBlock::run",
      inputs |-> << <<"pts", Point(0, 0)>> >>,
      outputs |-> << <<"pts", ListPoints(<<>>)>> >> ]

PtExtractBlock ==
    [ name |-> "PtExtract", flatten_inputs |-> FALSE, run_fn |-> "PtExtractBlock::run",
      inputs |-> << <<"pt", Point(0, 0)>> >>,
      outputs |-> << <<"x", Number(0)>>, <<"y", Number(0)>> >> ]

RandomPointBlock ==
    [ name |-> "RandomPoint", flatten_inputs |-> FALSE, run_fn |-> "RandomPointBlock::run",
      inputs |-> << <<"pt0", Point(0, 0)>>, <<"pt1", Point(0, 0)>>,
                    <<"pt2", Point(0, 0)>>, <<"pt3", Point(0, 0)>> >>,
      outputs |-> << <<"ptA", Point(0, 0)>>, <<"ptB", Point(0, 0)>> >> ]

\* A block assembled from DraggableBlock::default() through its public
\* fields: two Number inputs, flatten_inputs set, and the default run
\* function run_fn_noop.
FlattenNumbersBlock ==
    [ name |-> "FlattenNumbers", flatten_inputs |-> TRUE, run_fn |-> "run_fn_noop",
      inputs |-> << <<"a", Number(0)>>, <<"b", Number(0)>> >>,
      outputs |-> <<>> ]

\* to_draggable_block with CURRENT_ID = id: DraggableBlock::default() takes
\* the block's id, then every input port takes one, then every output port.
\* being_dragged_from is TRUE for Some(offset) and FALSE for None.
to_draggable_block(b, id) ==
    [ id |-> id,
      name |-> b.name,
      flatten_inputs |-> b.flatten_inputs,
      run_fn |-> b.run_fn,
      being_dragged_from |-> FALSE,
      inputs |-> [k \in DOMAIN b.inputs |->
                    BlockConnectionNode(id + k, b.inputs[k][1], b.inputs[k][2], "Inputs")],
      outputs |-> [k \in DOMAIN b.outputs |->
                    BlockConnectionNode(id + Len(b.inputs) + k, b.outputs[k][1],
                                        b.outputs[k][2], "Outputs")] ]

\* The number of get_id() calls to_draggable_block makes.
IdsTaken(b) == 1 + Len(b.inputs) + Len(b.outputs)

(***************************************************************************)
(* The evaluation engine: the BlockContext.                                *)
(***************************************************************************)
\* Node<Id>::from(id)
NodeFromId(id) == Node("", id)

\* Graph::calculate_order_indices: calculate_order, with the index of each
\* node kept in a parallel list.  The list holds positions in Graph::nodes.
RECURSIVE OrderIndicesFrom(_, _, _, _)
OrderIndicesFrom(g, existing_list, out_list, node_i) ==
    IF node_i > Len(g) THEN [status |-> "ok", list |-> out_list]
    ELSE LET insert_index == find_insert_index(g, existing_list, node_i)
         IN  IF insert_index = 0 THEN [status |-> "overflow", list |-> <<>>]
             ELSE OrderIndicesFrom(g, InsertAt(existing_list, insert_index, node_i),
                                   InsertAt(out_list, insert_index, node_i), node_i + 1)
calculate_order_indices(g) == OrderIndicesFrom(g, <<>>, <<>>, 1)

\* self.graph_order = self.graph.calculate_order_indices(): the context with
\* the new order, or with the process gone when the call overflows the stack.
SetGraphOrder(c) ==
    LET o == calculate_order_indices(c.graph)
    IN  [c EXCEPT !.graph_order = o.list, !.aborted = @ \/ o.status = "overflow"]

\* BlockContext::add_block.  block_ids holds positions in blocks.
add_block(c, b) ==
    LET b_id == b.id
        owned == [b EXCEPT !.inputs = [k \in DOMAIN @ |-> [@[k] EXCEPT !.parent_id = b_id]],
                           !.outputs = [k \in DOMAIN @ |-> [@[k] EXCEPT !.parent_id = b_id]]]
        block_index == Len(c.blocks) + 1
    IN  SetGraphOrder([c EXCEPT !.blocks = Append(@, owned),
                                !.graph = add(@, NodeFromId(b_id)),
                                !.block_ids = Insert(@, b_id, block_index)])

\* HashMap::remove
Remove(m, k) == [x \in (DOMAIN m) \ {k} |-> m[x]]

\* remove_connection that removes nothing.
remove_connection_none(c, id) == c

\* remove_connection leaving the entry of input_output behind.
remove_connection_stale(c, id) ==
    LET keys == {ids \in c.connections : ids[1] = id \/ ids[2] = id}
    IN  IF keys = {} THEN c
        ELSE LET key == CHOOSE ids \in keys : TRUE
             IN  [c EXCEPT !.inputs = Remove(Remove(@, key[1]), key[2]),
                           !.connections = @ \ {key}]

\* BlockContext::remove_connection: the connection that has the port id on
\* either side goes, with the map entries of both of its ids.  An input has
\* at most one connection, so the key found is the only one with that input.
remove_connection(c, id) ==
    LET keys == {ids \in c.connections : ids[1] = id \/ ids[2] = id}
    IN  IF keys = {} THEN c
        ELSE LET key == CHOOSE ids \in keys : TRUE
             IN  [c EXCEPT !.inputs = Remove(Remove(@, key[1]), key[2]),
                           !.input_output = Remove(Remove(@, key[1]), key[2]),
                           !.connections = @ \ {key}]

\* The ports can_connect looks at in a block: the opposite kind of my_type.
OppositePorts(block, my_type) ==
    IF my_type = "Outputs" THEN block.inputs ELSE block.outputs

\* The match with every pair of variants let through.
SameVariantAny(a, b) == TRUE
\* The match on (my_value_type, &connection.value): the same variant.
SameVariant(a, b) == a.tag = b.tag

\* can_connect without the look at inputs.contains_key(&input).
RECURSIVE CanConnectFromUnguarded(_, _, _, _, _, _, _, _)
CanConnectFromUnguarded(c, k, taken, my_parent, my_id, my_type, my_value_type, under_mouse) ==
    IF k > Len(c.blocks) THEN c
    ELSE LET ports == OppositePorts(c.blocks[k], my_type)
             hits == {p \in DOMAIN ports : /\ SameVariant(my_value_type, ports[p].value)
                                           /\ ports[p].id \in under_mouse}
         IN  IF k = taken \/ hits = {}
             THEN CanConnectFromUnguarded(c, k + 1, taken, my_parent, my_id, my_type,
                                          my_value_type, under_mouse)
             ELSE LET connection == ports[CHOOSE p \in hits : \A q \in hits : q <= p]
                      ids == <<my_id, connection.id>>
                      input == IF my_type = "Inputs" THEN ids[1] ELSE ids[2]
                      output == IF my_type = "Inputs" THEN ids[2] ELSE ids[1]
                      parent == IF my_type = "Inputs" THEN connection.parent_id ELSE my_parent
                  IN  [c EXCEPT !.inputs = Insert(@, input, parent),
                                !.input_output = Insert(@, input, output),
                                !.connections = @ \cup {ids}]

\* BlockContext::can_connect, from the block at position k on.  `taken` is the
\* position of the block being updated, which update() has taken out of the
\* list; under_mouse holds the ids of the ports the mouse is within.  The
\* last matching port of the first block that has one is the connection.
RECURSIVE CanConnectFrom(_, _, _, _, _, _, _, _)
CanConnectFrom(c, k, taken, my_parent, my_id, my_type, my_value_type, under_mouse) ==
    IF k > Len(c.blocks) THEN c
    ELSE LET ports == OppositePorts(c.blocks[k], my_type)
             hits == {p \in DOMAIN ports : /\ SameVariant(my_value_type, ports[p].value)
                                           /\ ports[p].id \in under_mouse}
         IN  IF k = taken \/ hits = {}
             THEN CanConnectFrom(c, k + 1, taken, my_parent, my_id, my_type,
                                 my_value_type, under_mouse)
             ELSE LET connection == ports[CHOOSE p \in hits : \A q \in hits : q <= p]
                      ids == <<my_id, connection.id>>
                      input == IF my_type = "Inputs" THEN ids[1] ELSE ids[2]
                      output == IF my_type = "Inputs" THEN ids[2] ELSE ids[1]
                      parent == IF my_type = "Inputs" THEN connection.parent_id ELSE my_parent
                  IN  IF Contains(c.inputs, input) THEN c
                      ELSE [c EXCEPT !.inputs = Insert(@, input, parent),
                                     !.input_output = Insert(@, input, output),
                                     !.connections = @ \cup {ids}]
can_connect(c, taken, my_parent, my_id, my_type, my_value_type, under_mouse) ==
    CanConnectFrom(c, 1, taken, my_parent, my_id, my_type, my_value_type, under_mouse)

\* The second half of BlockContext::update, run when connections changed:
\* the graph is rebuilt from the blocks and from the inputs map.
RECURSIVE AddBlocksFrom(_, _, _)
AddBlocksFrom(g, blocks, k) ==
    IF k > Len(blocks) THEN g
    ELSE AddBlocksFrom(add(g, NodeFromId(blocks[k].id)), blocks, k + 1)
RECURSIVE AddInputDependenciesFrom(_, _, _, _)
AddInputDependenciesFrom(g, c, block, p) ==
    IF p > Len(block.inputs) THEN g
    ELSE LET input == block.inputs[p]
             g1 == IF Contains(c.inputs, input.id)
                   THEN add_dependency(g, block.id, c.inputs[input.id])
                   ELSE g
         IN  AddInputDependenciesFrom(g1, c, block, p + 1)
RECURSIVE AddDependenciesFrom(_, _, _)
AddDependenciesFrom(g, c, k) ==
    IF k > Len(c.blocks) THEN g
    ELSE AddDependenciesFrom(AddInputDependenciesFrom(g, c, c.blocks[k], 1), c, k + 1)
\* update() with the rebuild left out.
RecalculateGraphSkipped(c) == c
RecalculateGraph(c) ==
    LET g0 == AddBlocksFrom(reset(c.graph), c.blocks, 1)
    IN  SetGraphOrder([c EXCEPT !.graph = AddDependenciesFrom(g0, c, 1)])

(***************************************************************************)
(* The evaluation engine: the run functions of the blocks.  A run function *)
(* returns Option<Vec<OutputResult>>, here res: <<>> for None and          *)
(* <<results>> for Some(results).                                          *)
(***************************************************************************)
Returned(res) == [status |-> "returned", res |-> res]
\* The call never returns: its loop pushes values without end.
Diverges == [status |-> "diverges", res |-> <<>>]

\* The while loop of IterationBlock::run, in f32 arithmetic.  A step that
\* does not move value upwards never leaves `value <= end`.
RECURSIVE IterateLoop(_, _, _, _, _, _)
IterateLoop(value, end, by, pass_value, out1, out2) ==
    IF ~(value <= end)
    THEN Returned(<< <<Iteration(out1), Iteration(out2)>> >>)
    ELSE LET next == F32(value + by)
         IN  IF next <= value THEN Diverges
             ELSE IterateLoop(next, end, by, pass_value,
                              Append(out1, Number(pass_value)),
                              Append(out2, Number(value)))

IterationBlock_run(inputs) ==
    IterateLoop(as_f32(inputs[2]), as_f32(inputs[3]), as_f32(inputs[4]),
                as_f32(inputs[1]), <<>>, <<>>)

PtCombineBlock_run(inputs) ==
    Returned(<< <<SingleValue(Point(as_f32(inputs[1]), as_f32(inputs[2])))>> >>)

FlattenPointsBlock_run(inputs) ==
    IF inputs[1].tag = "ListPoints"
    THEN Returned(<< <<SingleValue(inputs[1])>> >>)
    ELSE Returned(<<>>)

PtExtractBlock_run(inputs) ==
    LET pt == as_point(inputs[1])
    IN  Returned(<< <<SingleValue(Number(pt[1])), SingleValue(Number(pt[2]))>> >>)

run_fn_noop(inputs) == Returned(<<>>)

\* RandomPointBlock::run; it draws once from ctx.rng.
RandomPointBlock_run(inputs, rng) ==
    LET pt0 == as_point(inputs[1])
        pt1 == as_point(inputs[2])
        pt2 == as_point(inputs[3])
        pt3 == as_point(inputs[4])
    IN  IF gen_bool(rng).value
        THEN Returned(<< <<SingleValue(Point(pt0[1], pt0[2])),
                           SingleValue(Point(pt2[1], pt2[2]))>> >>)
        ELSE Returned(<< <<SingleValue(Point(pt1[1], pt1[2])),
                           SingleValue(Point(pt3[1], pt3[2]))>> >>)

\* What a call returned, and ctx.rng after it.
After(r, rng) == [status |-> r.status, res |-> r.res, rng |-> rng]

\* (block.run_fn)(&input_vec, ctx)
run_fn(block, input_vec, rng) ==
    CASE block.run_fn = "IterationBlock::run" -> After(IterationBlock_run(input_vec), rng)
      [] block.run_fn = "PtCombineBlock::run" -> After(PtCombineBlock_run(input_vec), rng)
      [] block.run_fn = "FlattenPointsBlock::run" ->
            After(FlattenPointsBlock_run(input_vec), rng)
      [] block.run_fn = "PtExtractBlock::run" -> After(PtExtractBlock_run(input_vec), rng)
      [] block.run_fn = "RandomPointBlock::run" ->
            After(RandomPointBlock_run(input_vec, rng), gen_bool(rng).rng)
      [] OTHER -> After(run_fn_noop(input_vec), rng)

(***************************************************************************)
(* The evaluation engine: BlockContext::run.                               *)
(***************************************************************************)
\* The length check of ResolveInputsFrom left out: every Iteration is taken
\* and the last one sets the count.
RECURSIVE ResolveInputsUnchecked(_, _, _, _, _, _)
ResolveInputsUnchecked(c, block, previous_outputs, p, this_input, has_iteration) ==
    IF p > Len(block.inputs)
    THEN [error |-> NoError, this_input |-> this_input, has_iteration |-> has_iteration]
    ELSE LET input == block.inputs[p] IN
         IF ~Contains(c.input_output, input.id)
         THEN ResolveInputsUnchecked(c, block, previous_outputs, p + 1,
                                     Append(this_input, SingleValue(input.value)), has_iteration)
         ELSE LET output_id == c.input_output[input.id] IN
              IF ~Contains(previous_outputs, output_id)
              THEN [error |-> [kind |-> "missing", block |-> block.id,
                               ids |-> <<output_id>>, lens |-> <<>>],
                    this_input |-> this_input, has_iteration |-> has_iteration]
              ELSE LET previous_value == previous_outputs[output_id] IN
                   ResolveInputsUnchecked(c, block, previous_outputs, p + 1,
                                          Append(this_input, previous_value),
                                          IF previous_value.kind = "SingleValue"
                                          THEN has_iteration
                                          ELSE << <<input.id, Len(previous_value.vals)>> >>)

\* The loop over block.inputs that fills this_input, from input p on.
\* has_iteration is <<>> for None and <<(id, len)>> for Some((id, len)).
RECURSIVE ResolveInputsFrom(_, _, _, _, _, _)
ResolveInputsFrom(c, block, previous_outputs, p, this_input, has_iteration) ==
    IF p > Len(block.inputs)
    THEN [error |-> NoError, this_input |-> this_input, has_iteration |-> has_iteration]
    ELSE LET input == block.inputs[p] IN
         IF ~Contains(c.input_output, input.id)
         THEN ResolveInputsFrom(c, block, previous_outputs, p + 1,
                                Append(this_input, SingleValue(input.value)), has_iteration)
         ELSE LET output_id == c.input_output[input.id] IN
              IF ~Contains(previous_outputs, output_id)
              THEN [error |-> [kind |-> "missing", block |-> block.id,
                               ids |-> <<output_id>>, lens |-> <<>>],
                    this_input |-> this_input, has_iteration |-> has_iteration]
              ELSE LET previous_value == previous_outputs[output_id] IN
                   IF previous_value.kind = "SingleValue"
                   THEN ResolveInputsFrom(c, block, previous_outputs, p + 1,
                                          Append(this_input, previous_value), has_iteration)
                   ELSE LET v == previous_value.vals IN
                        IF has_iteration # <<>> /\ Len(v) # has_iteration[1][2]
                        THEN [error |-> [kind |-> "lengths", block |-> block.id,
                                         ids |-> <<has_iteration[1][1], input.id>>,
                                         lens |-> <<has_iteration[1][2], Len(v)>>],
                              this_input |-> this_input, has_iteration |-> has_iteration]
                        ELSE ResolveInputsFrom(c, block, previous_outputs, p + 1,
                                               Append(this_input, previous_value),
                                               << <<input.id, Len(v)>> >>)

\* The flatten step: every Iteration becomes one owned list value, of the
\* variant its first element calls for; todo!() panics for the others.
RECURSIVE ValuesAsF64(_)
ValuesAsF64(x) == IF x = <<>> THEN <<>> ELSE <<as_f64(Head(x))>> \o ValuesAsF64(Tail(x))
RECURSIVE ValuesAsPoint(_)
ValuesAsPoint(x) == IF x = <<>> THEN <<>> ELSE <<as_point(Head(x))>> \o ValuesAsPoint(Tail(x))
\* The flatten step with the Iterations left as they are.
FlattenSkipped(this_input, this_input_clone) ==
    [panic |-> FALSE, this_input |-> this_input]

RECURSIVE FlattenFrom(_, _)
FlattenFrom(this_input, this_input_clone) ==
    IF this_input = <<>> THEN [panic |-> FALSE, this_input |-> this_input_clone]
    ELSE LET input == Head(this_input)
             x == input.vals
         IN  IF input.kind # "Iteration"
             THEN FlattenFrom(Tail(this_input), Append(this_input_clone, input))
             ELSE IF x = <<>>
             THEN FlattenFrom(Tail(this_input),
                              Append(this_input_clone, SingleValueOwned(ListNumbers(<<>>))))
             ELSE IF Head(x).tag = "Number"
             THEN FlattenFrom(Tail(this_input),
                              Append(this_input_clone,
                                     SingleValueOwned(ListNumbers(ValuesAsF64(x)))))
             ELSE IF Head(x).tag = "Point"
             THEN FlattenFrom(Tail(this_input),
                              Append(this_input_clone,
                                     SingleValueOwned(ListPoints(ValuesAsPoint(x)))))
             ELSE [panic |-> TRUE, this_input |-> this_input_clone]

\* input_vec with &values[0] in place of &values[i].
InputVecFirst(this_input, i) ==
    [p \in DOMAIN this_input |-> this_input[p].vals[1]]

\* input_vec of iteration i (counted from 1): the single value, or values[i],
\* which panics past the end of the Iteration.
InBounds(this_input, i) ==
    \A p \in DOMAIN this_input :
        this_input[p].kind = "Iteration" => i <= Len(this_input[p].vals)
InputVec(this_input, i) ==
    [p \in DOMAIN this_input |->
        IF this_input[p].kind = "Iteration" THEN this_input[p].vals[i]
        ELSE this_input[p].vals[1]]

\* The merge with every write replacing the entry instead of joining it.
RECURSIVE MergeFromOverwrite(_, _, _, _)
MergeFromOverwrite(block, result_outputs, result, result_index) ==
    IF result_index > Len(result) THEN [panic |-> FALSE, result_outputs |-> result_outputs]
    ELSE IF result_index > Len(block.outputs)
    THEN [panic |-> TRUE, result_outputs |-> result_outputs]
    ELSE MergeFromOverwrite(block,
                            Insert(result_outputs, block.outputs[result_index].id,
                                   result[result_index]),
                            result, result_index + 1)

\* The merge of one call's results into result_outputs, from result_index
\* on.  block.outputs[result_index] panics past the block's outputs.  An
\* entry already present becomes an Iteration of its own elements (the one
\* value of a SingleValue, the values of an Iteration) followed by those of
\* the new result (pushed or extended); the four match arms differ in no
\* other way.
RECURSIVE MergeFrom(_, _, _, _)
MergeFrom(block, result_outputs, result, result_index) ==
    IF result_index > Len(result) THEN [panic |-> FALSE, result_outputs |-> result_outputs]
    ELSE IF result_index > Len(block.outputs)
    THEN [panic |-> TRUE, result_outputs |-> result_outputs]
    ELSE LET result_id == block.outputs[result_index].id
             result_value == result[result_index]
             merged == IF Contains(result_outputs, result_id)
                       THEN Iteration(result_outputs[result_id].vals \o result_value.vals)
                       ELSE result_value
         IN  MergeFrom(block, Insert(result_outputs, result_id, merged), result,
                       result_index + 1)

\* A call of a run function, as the pass records it: the block, the
\* input_vec it was given, and what it returned.
Call(block, input_vec, res) == [block |-> block.id, inputs |-> input_vec, res |-> res]

\* How a pass ends: Ok(()), Err(message), a panic, or never.
Outcome(result, error, at, calls, outputs, rng) ==
    [result |-> result, error |-> error, at |-> at, calls |-> calls, outputs |-> outputs,
     rng |-> rng]

\* for i in 0..num_iterations, from iteration i (counted from 1) on.
RECURSIVE FanOutFrom(_, _, _, _, _, _, _)
FanOutFrom(block, this_input, i, num_iterations, result_outputs, calls, rng) ==
    IF i > num_iterations THEN Outcome("running", NoError, <<>>, calls, result_outputs, rng)
    ELSE IF ~InBounds(this_input, i)
    THEN Outcome("panic", NoError, <<block.id>>, calls, result_outputs, rng)
    ELSE LET input_vec == InputVec(this_input, i)
             r == run_fn(block, input_vec, rng)
         IN  IF r.status = "diverges"
             THEN Outcome("diverges", NoError, <<block.id>>, calls, result_outputs, rng)
             ELSE LET calls1 == Append(calls, Call(block, input_vec, r.res))
                      m == IF r.res = <<>>
                           THEN [panic |-> FALSE, result_outputs |-> result_outputs]
                           ELSE MergeFrom(block, result_outputs, r.res[1], 1)
                  IN  IF m.panic
                      THEN Outcome("panic", NoError, <<block.id>>, calls1, m.result_outputs,
                                   r.rng)
                      ELSE FanOutFrom(block, this_input, i + 1, num_iterations,
                                      m.result_outputs, calls1, r.rng)

\* The return with what the pass had done taken back.
FailedUndone(block, error, previous_outputs, calls, rng) ==
    Outcome("Err", error, <<block.id>>, <<>>, <<>>, rng)
\* return Err(format!(...)) while the inputs of a block are resolved.
Failed(block, error, previous_outputs, calls, rng) ==
    Outcome("Err", error, <<block.id>>, calls, previous_outputs, rng)

\* The body of the loop over graph_order for one block.
RunBlock(c, block, previous_outputs, calls, rng) ==
    LET r == ResolveInputsFrom(c, block, previous_outputs, 1, <<>>, <<>>)
    IN  IF r.error # NoError
        THEN Failed(block, r.error, previous_outputs, calls, rng)
        ELSE LET result_outputs == previous_outputs
                 num_iterations == IF r.has_iteration = <<>> THEN 1
                                   ELSE r.has_iteration[1][2]
                 f == IF block.flatten_inputs THEN FlattenFrom(r.this_input, <<>>)
                      ELSE [panic |-> FALSE, this_input |-> r.this_input]
             IN  IF f.panic
                 THEN Outcome("panic", NoError, <<block.id>>, calls, previous_outputs, rng)
                 ELSE FanOutFrom(block, f.this_input, 1,
                                 IF block.flatten_inputs THEN 1 ELSE num_iterations,
                                 result_outputs, calls, rng)

\* for graph_index in self.graph_order.iter(), from position k on.
RECURSIVE RunFrom(_, _, _, _, _)
RunFrom(c, k, previous_outputs, calls, rng) ==
    IF k > Len(c.graph_order)
    THEN Outcome("Ok", NoError, <<>>, calls, previous_outputs, rng)
    ELSE LET graph_index == c.graph_order[k]
             node == c.graph[graph_index]
             id == node.value
             block_index == c.block_ids[id]
             block == c.blocks[block_index]
             o == RunBlock(c, block, previous_outputs, calls, rng)
         IN  IF o.result # "running" THEN o
             ELSE RunFrom(c, k + 1, o.outputs, o.calls, o.rng)

\* The map of a pass carried over from the pass before.
PreviousOutputsKept == pass.outputs
\* let mut previous_outputs = HashMap::new()
PreviousOutputsNew == <<>>

\* BlockContext::run; ctx.rng is the one part of the BlockRunContext that
\* a pass changes.
run(c, run_ctx) == RunFrom(c, 1, PreviousOutputsNew, <<>>, run_ctx.rng)

(***************************************************************************)
(* Scenes: contexts a user builds in the editor by adding blocks from the  *)
(* catalog, typing values into the value editor and dragging connections.  *)
(* A scene has two Iterate blocks A and B as sources, a consumer C fed by  *)
(* their outputs, and a block F with one Point input, fed by C.            *)
(***************************************************************************)
\* The largest `end` typed into a source, in steps of its `by`; the smallest
\* is one step below `start`, which makes the source's Iterations empty.
MaxEnd == 3
\* The largest number of the consumer's inputs that are connected.
MaxWired == 2

EndValues == {10 * k : k \in (0 - 1)..MaxEnd}
\* The `start` of source A: its default, or one step above it.
StartValues == {0, 10}

\* The value editor: the DragValue of a Number input writes input.value.
SetValue(c, block_index, p, v) ==
    [c EXCEPT !.blocks[block_index].inputs[p].value = v]

\* A connection dragged from output port p of the block at from_block and
\* released over the input port with id to_id: BlockConnectionNode::update
\* calls can_connect and reports a change, and BlockContext::update
\* recalculates the graph.
DragConnect(c, from_block, p, to_id) ==
    LET port == c.blocks[from_block].outputs[p]
    IN  RecalculateGraph(can_connect(c, from_block, port.parent_id, port.id,
                                     port.connection_type, port.value, {to_id}))

\* The blocks of a scene in the order the user adds them: the sources
\* first, or every block before the blocks that feed it, so that the
\* evaluation order is not the order of the blocks.
AddOrders == { <<"A", "B", "C", "F">>, <<"F", "C", "B", "A">> }
\* The consumer of a scene and the block that follows it.
Consumers ==
    { <<IterationBlock, FlattenPointsBlock>>, <<PtCombineBlock, FlattenPointsBlock>>,
      <<PtCombineBlock, PtExtractBlock>>, <<FlattenNumbersBlock, PtExtractBlock>> }
RoleBlock(role, consumer) ==
    CASE role = "C" -> consumer[1]
      [] role = "F" -> consumer[2]
      [] OTHER -> IterationBlock
PositionOf(add_order, role) == CHOOSE k \in DOMAIN add_order : add_order[k] = role

\* The "add block" button pressed for each block of the scene in turn: the
\* context and CURRENT_ID afterwards.
RECURSIVE AddSceneBlocks(_, _, _, _, _)
AddSceneBlocks(c, id, add_order, consumer, k) ==
    IF k > Len(add_order) THEN [c |-> c, id |-> id]
    ELSE LET b == RoleBlock(add_order[k], consumer)
         IN  AddSceneBlocks(add_block(c, to_draggable_block(b, id)), id + IdsTaken(b),
                            add_order, consumer, k + 1)

\* The outputs a consumer input can be fed from, and the ways to wire the
\* consumer: each input is left alone (<<"", 0>>) or fed from one output.
SourceOutputs == {"A", "B"} \X {1, 2}
Unwired == <<"", 0>>
Wirings(consumer) ==
    {w \in [DOMAIN consumer[1].inputs -> {Unwired} \cup SourceOutputs] :
        Cardinality({p \in DOMAIN w : w[p] # Unwired}) <= MaxWired}

RECURSIVE WireConsumerFrom(_, _, _, _)
WireConsumerFrom(c, add_order, w, p) ==
    IF p > Len(w) THEN c
    ELSE LET consumer == c.blocks[PositionOf(add_order, "C")]
             c1 == IF w[p] = Unwired THEN c
                   ELSE DragConnect(c, PositionOf(add_order, w[p][1]), w[p][2],
                                    consumer.inputs[p].id)
         IN  WireConsumerFrom(c1, add_order, w, p + 1)

\* The consumer's first output dragged to the input of F; can_connect
\* refuses it unless the output holds a Point.
WireSink(c, add_order) ==
    LET consumer == PositionOf(add_order, "C")
        sink == c.blocks[PositionOf(add_order, "F")]
    IN  IF c.blocks[consumer].outputs = <<>> THEN c
        ELSE DragConnect(c, consumer, 1, sink.inputs[1].id)

\* The scene with its blocks added and its connections dragged.
Scene(add_order, consumer, w, sink_wired) ==
    LET added == AddSceneBlocks(EmptyContext, FirstId, add_order, consumer, 1)
        c1 == WireConsumerFrom(added.c, add_order, w, 1)
        c2 == IF sink_wired THEN WireSink(c1, add_order) ELSE c1
    IN  [c |-> c2, id |-> added.id, add_order |-> add_order]

\* `start` typed into source A and `end` into both sources; they are the
\* second and the third input of an Iterate block.
SetRanges(c, add_order, start_a, end_a, end_b) ==
    LET c1 == SetValue(c, PositionOf(add_order, "A"), 2, Number(start_a))
        c2 == SetValue(c1, PositionOf(add_order, "A"), 3, Number(end_a))
    IN  SetValue(c2, PositionOf(add_order, "B"), 3, Number(end_b))

\* The scenes, before any value is typed.
Scenes ==
    UNION { { Scene(add_order, consumer, w, sink_wired) : w \in Wirings(consumer) } :
            add_order \in AddOrders, consumer \in Consumers, sink_wired \in BOOLEAN }

\* A scene stands in the editor and no pass has run on it.
InitRun ==
    /\ \E scene \in Scenes, start_a \in StartValues, end_a \in EndValues,
          end_b \in EndValues :
          /\ ctx = SetRanges(scene.c, scene.add_order, start_a, end_a, end_b)
          /\ current_id = scene.id
    /\ pass = NoPass
    /\ mouse_down = FALSE
    /\ tried = <<>>
    /\ rctx = <<>>
    /\ TimelineAtRest
    /\ ValueAtRest
    /\ nodes = <<>>
    /\ order = NoOrder
    /\ indices = NoOrder
    /\ valid = "unset"

\* The drawing area main hands to Timeline::run, in a window of 800 by 600:
\* what EditorWindow::dimensions leaves beside the editor (350 wide) and
\* above the timeline (a quarter of the height, and a margin of 12); the
\* seed main starts with; and the bar at the start of the item.
ScreenSpace == <<450, 438>>
rand_seed == 101
RunContext == BlockRunContext(ScreenSpace, 0, rand_seed)

\* The context after a pass that lost the order it evaluated.
SelfAfterRunCleared(c, outcome) == [c EXCEPT !.graph_order = <<>>]
\* pub fn run(&self, ctx: &mut BlockRunContext): the pass borrows the
\* BlockContext shared, and what it builds (this_input, input_vec,
\* result_outputs) it owns or borrows from it; the context after the pass
\* is the context before it, however the pass ends.
SelfAfterRun(c, outcome) == c

\* A frame evaluates the item: item.blocks.run(&mut ctx).
Run ==
    /\ ~ctx.aborted
    /\ rctx' = <<RunContext>>
    /\ pass' = run(ctx, RunContext)
    /\ ctx' = SelfAfterRun(ctx, run(ctx, RunContext))
    /\ UNCHANGED <<current_id, mouse_down, tried>>
    /\ UNCHANGED graph_vars
    /\ UNCHANGED timeline_vars
    /\ UNCHANGED value_vars

NextRun == Run

SpecRun == InitRun /\ [][NextRun]_vars

(***************************************************************************)
(* Vocabulary for the properties of a pass.                                *)
(***************************************************************************)
Blocks == {ctx.blocks[k] : k \in DOMAIN ctx.blocks}

\* The calls the pass made of a block's run function, in order.
RECURSIVE CallsOf(_, _)
CallsOf(calls, id) ==
    IF calls = <<>> THEN <<>>
    ELSE (IF Head(calls).block = id THEN <<Head(calls)>> ELSE <<>>) \o CallsOf(Tail(calls), id)

\* The place of a block in the evaluation order.
OrderPlace(id) ==
    CHOOSE k \in DOMAIN ctx.graph_order : ctx.graph[ctx.graph_order[k]].value = id

\* The pass went through the whole of the block's evaluation; the pass began
\* the block's evaluation.
Completed(b) ==
    \/ pass.result = "Ok"
    \/ pass.at # <<>> /\ OrderPlace(b.id) < OrderPlace(pass.at[1])
Started(b) == Completed(b) \/ pass.at = <<b.id>>

\* Input p of the block is connected; the upstream result it is connected to.
Connected(b, p) == b.inputs[p].id \in DOMAIN ctx.input_output
HasUpstream(b, p) ==
    Connected(b, p) /\ ctx.input_output[b.inputs[p].id] \in DOMAIN pass.outputs
Upstream(b, p) == pass.outputs[ctx.input_output[b.inputs[p].id]]

\* The inputs of the block whose upstream result is an Iteration.
Iterated(b) ==
    {p \in DOMAIN b.inputs : HasUpstream(b, p) /\ Upstream(b, p).kind = "Iteration"}
IterationLengths(b) == {Len(Upstream(b, p).vals) : p \in Iterated(b)}

\* Every connected input of the block has an upstream result.
AllUpstream(b) == \A p \in DOMAIN b.inputs : Connected(b, p) => HasUpstream(b, p)

(***************************************************************************)
(* C7: when a node has two connected inputs whose upstream results are     *)
(* Iterations of different lengths, the pass returns Err and the node's    *)
(* function is not invoked, whether or not the node has flatten_inputs.    *)
(***************************************************************************)
C7_LengthMismatchIsErr ==
    \A b \in Blocks :
        (pass.result # "none" /\ Cardinality(IterationLengths(b)) > 1)
            => /\ pass.result = "Err"
               /\ CallsOf(pass.calls, b.id) = <<>>

\* A flatten_inputs node whose two Iterations have 3 and 4 elements has
\* stopped the pass with the error that names the two lengths.
C7_Witness ==
    \E b \in Blocks :
        /\ b.flatten_inputs
        /\ IterationLengths(b) = {3, 4}
        /\ pass.result = "Err"
        /\ pass.error.kind = "lengths"
        /\ pass.error.block = b.id
        /\ pass.error.lens \in {<<3, 4>>, <<4, 3>>}

(***************************************************************************)
(* C8: a node without flatten_inputs whose iterated inputs all have length *)
(* N is invoked exactly N times, once when no input is iterated; call i    *)
(* receives element i of every iterated input, the value of every          *)
(* single-valued connected input and the stored default of every           *)
(* unconnected input, and no call indexes an Iteration out of range.       *)
(***************************************************************************)
\* The number of calls the node is due.
DueCalls(b) ==
    IF Iterated(b) = {} THEN 1 ELSE CHOOSE n \in IterationLengths(b) : TRUE

\* What call i of the node is due on input p.
DueInput(b, p, i) ==
    IF ~Connected(b, p) THEN b.inputs[p].value
    ELSE IF p \in Iterated(b) THEN Upstream(b, p).vals[i]
    ELSE Upstream(b, p).vals[1]

RECURSIVE Concatenation(_, _)
Concatenation(calls, r) ==
    IF calls = <<>> THEN <<>>
    ELSE Head(calls).res[1][r].vals \o Concatenation(Tail(calls), r)

C9_MergeIsConcatenation ==
    \A b \in Blocks :
        LET calls == CallsOf(pass.calls, b.id)
        IN  ( /\ Completed(b)
              /\ calls # <<>>
              /\ \A i \in DOMAIN calls : calls[i].res # <<>> )
                => \A r \in DOMAIN b.outputs :
                      /\ b.outputs[r].id \in DOMAIN pass.outputs
                      /\ pass.outputs[b.outputs[r].id] =
                            IF Len(calls) = 1 THEN calls[1].res[1][r]
                            ELSE [kind |-> "Iteration", vals |-> Concatenation(calls, r)]

\* A node invoked three times has returned Iterations of one, two and three
\* elements for an output, whose entry holds the six.
C9_Witness ==
    \E b \in Blocks :
        LET calls == CallsOf(pass.calls, b.id)
        IN  /\ pass.result = "Ok"
            /\ Len(calls) = 3
            /\ \E r \in DOMAIN b.outputs :
                  /\ \A i \in 1..3 : calls[i].res[1][r].kind = "Iteration"
                                     /\ Len(calls[i].res[1][r].vals) = i
                  /\ Len(pass.outputs[b.outputs[r].id].vals) = 6

(***************************************************************************)
(* C10: a node with flatten_inputs that receives an Iteration of n >= 1    *)
(* Point values on an input is invoked exactly once in the pass, with that *)
(* input resolved to one ListPoints value holding the n points in their    *)
(* original order; an Iteration of Numbers becomes one ListNumbers value   *)
(* likewise, and single-valued inputs are passed unchanged.                *)
(***************************************************************************)
\* The payloads of the values, one after the other.
RECURSIVE Payloads(_)
Payloads(vs) == IF vs = <<>> THEN <<>> ELSE Head(vs).nums \o Payloads(Tail(vs))

\* What the one call of a flatten_inputs node is due on input p.
DueFlattened(b, p) ==
    IF p \notin Iterated(b) THEN DueInput(b, p, 1)
    ELSE LET vs == Upstream(b, p).vals
         IN  [ tag |-> IF vs[1].tag = "Point" THEN "ListPoints" ELSE "ListNumbers",
               nums |-> Payloads(vs), opts |-> <<>> ]

C10_FlattenOnce ==
    \A b \in Blocks :
        ( /\ Started(b)
          /\ b.flatten_inputs
          /\ AllUpstream(b)
          /\ Cardinality(IterationLengths(b)) <= 1
          /\ \A p \in Iterated(b) :
                /\ Upstream(b, p).vals # <<>>
                /\ \A k \in DOMAIN Upstream(b, p).vals :
                      Upstream(b, p).vals[k].tag \in {"Point", "Number"} )
            => LET calls == CallsOf(pass.calls, b.id)
               IN  /\ Completed(b)
                   /\ Len(calls) = 1
                   /\ \A p \in DOMAIN b.inputs : calls[1].inputs[p] = DueFlattened(b, p)

\* FlattenPoints, fed an Iteration of four different points, has been
\* invoked once with the four points in one ListPoints value.
C10_Witness ==
    \E b \in Blocks :
        /\ b.flatten_inputs
        /\ pass.result = "Ok"
        /\ Iterated(b) = {1}
        /\ Len(Upstream(b, 1).vals) = 4
        /\ \A j, k \in 1..4 : j # k => Upstream(b, 1).vals[j] # Upstream(b, 1).vals[k]
        /\ Upstream(b, 1).vals[1].tag = "Point"
        /\ CallsOf(pass.calls, b.id)[1].inputs[1].tag = "ListPoints"
        /\ Len(CallsOf(pass.calls, b.id)[1].inputs[1].nums) = 8

(***************************************************************************)
(* The editor: one frame of BlockContext::update.                          *)
(*                                                                         *)
(* The mouse of a frame is what macroquad reports during it: whether the   *)
(* left button was pressed or released since the last frame, whether it is *)
(* down, and what the pointer is within.  The ports of a block and its     *)
(* body are disjoint rectangles, so the pointer is within at most one of   *)
(* them; blocks lie anywhere, so what it is within in one block says       *)
(* nothing of another.  hits[k] is, for the block at position k, the id of *)
(* the block (its body), the id of one of its ports, or NoHit.             *)
(***************************************************************************)
NoHit == 0 - 1

\* can_drag that grants whoever asks.
can_drag_always(c, id) ==
    [c |-> [c EXCEPT !.currently_dragging = <<id>>], granted |-> TRUE]
\* BlockContext::can_drag: the context afterwards and the answer.
can_drag(c, id) ==
    IF c.currently_dragging = <<>>
    THEN [c |-> [c EXCEPT !.currently_dragging = <<id>>], granted |-> TRUE]
    ELSE [c |-> c, granted |-> FALSE]

\* BlockContext::release_drag
release_drag(c, id) ==
    IF c.currently_dragging # <<>> /\ c.currently_dragging[1] = id
    THEN [c EXCEPT !.currently_dragging = <<>>]
    ELSE c

\* The ids of the ports the pointer is within.
UnderMouse(c, m) ==
    {m.hits[k] : k \in DOMAIN c.blocks} \ ({NoHit} \cup {c.blocks[k].id : k \in DOMAIN c.blocks})

\* BlockConnectionNode::update for a port of the block at position `taken`:
\* the context, the port and whether connections have changed.  A press
\* within the port asks for the drag, and an input that gets it lets its
\* wire go; a release lets the drag go, and a port that was dragging a line
\* tries to connect to what the pointer is within.
PortUpdate(c, taken, port, m) ==
    LET within == m.hits[taken] = port.id
        Grab(try) ==
            [c |-> IF try.granted /\ port.connection_type = "Inputs"
                   THEN remove_connection(try.c, port.id)
                   ELSE try.c,
             grabbed |-> try.granted]
        LetGo(pressed) ==
            [c |-> IF ~m.released THEN pressed.c
                   ELSE IF port.is_dragging_line \/ pressed.grabbed
                   THEN can_connect(release_drag(pressed.c, port.id), taken,
                                    port.parent_id, port.id, port.connection_type,
                                    port.value, UnderMouse(c, m))
                   ELSE release_drag(pressed.c, port.id),
             port |-> [port EXCEPT !.is_dragging_line =
                                      (@ \/ pressed.grabbed) /\ ~m.released],
             changed |-> \/ pressed.grabbed /\ port.connection_type = "Inputs"
                         \/ m.released /\ (port.is_dragging_line \/ pressed.grabbed)]
    IN  LetGo(IF within /\ m.pressed THEN Grab(can_drag(c, port.id))
              ELSE [c |-> c, grabbed |-> FALSE])

\* iter_connections_mut over a list of ports, from port p on.
RECURSIVE PortsUpdateFrom(_, _, _, _, _, _)
PortsUpdateFrom(c, taken, ports, m, p, changed) ==
    IF p > Len(ports) THEN [c |-> c, ports |-> ports, changed |-> changed]
    ELSE LET Rest(r) ==
                 PortsUpdateFrom(r.c, taken, [ports EXCEPT ![p] = r.port], m, p + 1,
                                 changed \/ r.changed)
         IN  Rest(PortUpdate(c, taken, ports[p], m))

\* DraggableBlock::update for the block at position i, which update() has
\* taken out of the list: the context with the block put back, and whether
\* connections have changed.  A block whose body the pointer is within
\* while the button is down asks for the drag; a release lets it go; then
\* the inputs and the outputs are updated.
BlockUpdate(c, i, m) ==
    LET block == c.blocks[i]
        asks == m.hits[i] = block.id /\ ~block.being_dragged_from /\ m.down
        Asked(try) ==
            [c |-> IF m.released THEN release_drag(try.c, block.id) ELSE try.c,
             dragged |-> (block.being_dragged_from \/ try.granted) /\ ~m.released]
        PutBack(dragged, ins, outs) ==
            [c |-> [outs.c EXCEPT !.blocks[i] =
                       [block EXCEPT !.being_dragged_from = dragged,
                                     !.inputs = ins.ports, !.outputs = outs.ports]],
             changed |-> ins.changed \/ outs.changed]
        Outputs(dragged, ins) ==
            PutBack(dragged, ins, PortsUpdateFrom(ins.c, i, block.outputs, m, 1, FALSE))
        Inputs(body) ==
            Outputs(body.dragged, PortsUpdateFrom(body.c, i, block.inputs, m, 1, FALSE))
    IN  Inputs(Asked(IF asks THEN can_drag(c, block.id)
                     ELSE [c |-> c, granted |-> FALSE]))

\* The loop of BlockContext::update over the blocks, from block i on.
RECURSIVE BlocksUpdateFrom(_, _, _, _)
BlocksUpdateFrom(c, m, i, connections_changed) ==
    IF i > Len(c.blocks) THEN [c |-> c, changed |-> connections_changed]
    ELSE LET Rest(r) == BlocksUpdateFrom(r.c, m, i + 1, connections_changed \/ r.changed)
         IN  Rest(BlockUpdate(c, i, m))

\* BlockContext::update
update(c, m) ==
    LET Recalculated(r) == IF r.changed THEN RecalculateGraph(r.c) ELSE r.c
    IN  Recalculated(BlocksUpdateFrom(c, m, 1, FALSE))

\* The blocks the user adds from the catalog, each of them once.
Palette == {PtCombineBlock, PtExtractBlock, FlattenPointsBlock}

\* The button of a frame, after a frame that left it down or up: held or
\* released, and up, pressed or clicked.
Buttons(was_down) ==
    IF was_down
    THEN { [pressed |-> FALSE, released |-> FALSE, down |-> TRUE],
           [pressed |-> FALSE, released |-> TRUE, down |-> FALSE] }
    ELSE { [pressed |-> FALSE, released |-> FALSE, down |-> FALSE],
           [pressed |-> TRUE, released |-> FALSE, down |-> TRUE],
           [pressed |-> TRUE, released |-> TRUE, down |-> FALSE] }

\* What the pointer can be within in a block, as far as the frame reads it:
\* DraggableBlock::update asks about the body only while the button is down,
\* BlockConnectionNode::update and can_connect ask about a port only in a
\* frame with a press or a release (is_being_hovered aside, which only
\* draw reads).  Where the pointer is makes no other difference.
Elements(block, b) ==
    {NoHit} \cup (IF b.down THEN {block.id} ELSE {})
            \cup (IF b.pressed \/ b.released
                  THEN {block.inputs[p].id : p \in DOMAIN block.inputs}
                       \cup {block.outputs[p].id : p \in DOMAIN block.outputs}
                  ELSE {})

\* What the pointer can be within in each of the first n blocks.
RECURSIVE HitsUpTo(_, _, _)
HitsUpTo(blocks, n, b) ==
    IF n = 0 THEN {<<>>}
    ELSE {Append(h, e) : h \in HitsUpTo(blocks, n - 1, b), e \in Elements(blocks[n], b)}

\* The blocks overlap in pairs at most: the pointer is within elements of
\* no more than two blocks.
Overlapping(h) ==
    \E i, j \in DOMAIN h : \A k \in DOMAIN h : k \in {i, j} \/ h[k] = NoHit

\* The mouse of a frame with the button b.
Frame(b, h) ==
    [pressed |-> b.pressed, released |-> b.released, down |-> b.down, hits |-> h]
FramesOf(c, b) ==
    {Frame(b, h) : h \in {x \in HitsUpTo(c.blocks, Len(c.blocks), b) :
                            x = <<>> \/ Overlapping(x)}}
Frames(c, was_down) == UNION {FramesOf(c, b) : b \in Buttons(was_down)}

InitCtx ==
    /\ ctx = EmptyContext
    /\ current_id = FirstId
    /\ pass = NoPass
    /\ mouse_down = FALSE
    /\ tried = <<>>
    /\ rctx = <<>>
    /\ TimelineAtRest
    /\ ValueAtRest
    /\ nodes = <<>>
    /\ order = NoOrder
    /\ indices = NoOrder
    /\ valid = "unset"

\* EditorWindow::draw, a block of the catalog clicked:
\* block_context.add_block(block.to_draggable_block()).
AddBlock ==
    /\ ~ctx.aborted
    /\ \E kind \in Palette :
          /\ \A k \in DOMAIN ctx.blocks : ctx.blocks[k].name # kind.name
          /\ ctx' = add_block(ctx, to_draggable_block(kind, current_id))
          /\ current_id' = current_id + IdsTaken(kind)
    /\ UNCHANGED <<pass, mouse_down, tried, rctx>>
    /\ UNCHANGED graph_vars
    /\ UNCHANGED timeline_vars
    /\ UNCHANGED value_vars

\* A frame of the main loop with the item open: item.block_context.update().
Update ==
    /\ ~ctx.aborted
    /\ \E m \in Frames(ctx, mouse_down) :
          /\ ctx' = update(ctx, m)
          /\ mouse_down' = m.down
    /\ UNCHANGED <<current_id, pass, tried, rctx>>
    /\ UNCHANGED graph_vars
    /\ UNCHANGED timeline_vars
    /\ UNCHANGED value_vars

NextCtx == AddBlock \/ Update

SpecCtx == InitCtx /\ [][NextCtx]_vars

(***************************************************************************)
(* One drag gesture, observed: a press on a port and the release.          *)
(***************************************************************************)
\* The orders in which the user adds the blocks of the palette.
PaletteOrders ==
    { <<PtCombineBlock, PtExtractBlock, FlattenPointsBlock>>,
      <<PtExtractBlock, FlattenPointsBlock, PtCombineBlock>>,
      <<FlattenPointsBlock, PtCombineBlock, PtExtractBlock>>,
      <<PtCombineBlock, PtExtractBlock>>,
      <<PtExtractBlock, PtCombineBlock>> }

\* add_block for each block of the list from position k on, with the ids
\* get_id() hands out from id on.
RECURSIVE AddPaletteFrom(_, _, _, _)
AddPaletteFrom(c, id, kinds, k) ==
    IF k > Len(kinds) THEN [c |-> c, id |-> id]
    ELSE AddPaletteFrom(add_block(c, to_draggable_block(kinds[k], id)),
                        id + IdsTaken(kinds[k]), kinds, k + 1)

\* The position of the block of a kind, 0 when it has not been added.
Named(c, name) ==
    IF \E k \in DOMAIN c.blocks : c.blocks[k].name = name
    THEN CHOOSE k \in DOMAIN c.blocks : c.blocks[k].name = name
    ELSE 0

\* The wires the user has dragged before the gesture, each from an output
\* to an input, in this order; can_connect refuses the ones it refuses.
WireList ==
    << [from |-> "PtCombine", out |-> 1, to |-> "PtExtract", in |-> 1],
       [from |-> "PtCombine", out |-> 1, to |-> "FlattenPoints", in |-> 1],
       [from |-> "PtExtract", out |-> 1, to |-> "PtCombine", in |-> 1],
       [from |-> "PtExtract", out |-> 2, to |-> "PtCombine", in |-> 1],
       [from |-> "PtExtract", out |-> 2, to |-> "PtCombine", in |-> 2] >>

RECURSIVE WireFrom(_, _, _)
WireFrom(c, chosen, k) ==
    IF k > Len(WireList) \/ c.aborted THEN c
    ELSE LET w == WireList[k]
             from == Named(c, w.from)
             to == Named(c, w.to)
         IN  IF k \in chosen /\ from # 0 /\ to # 0
             THEN WireFrom(DragConnect(c, from, w.out, c.blocks[to].inputs[w.in].id),
                           chosen, k + 1)
             ELSE WireFrom(c, chosen, k + 1)

\* The editors a gesture is observed in: the blocks added, some wires
\* drawn, and CURRENT_ID where the blocks have left it.
Editor(kinds, chosen) ==
    LET added == AddPaletteFrom(EmptyContext, FirstId, kinds, 1)
    IN  [c |-> WireFrom(added.c, chosen, 1), id |-> added.id]
Editors ==
    { Editor(kinds, chosen) : kinds \in PaletteOrders, chosen \in SUBSET DOMAIN WireList }

\* The block a port belongs to: its position in blocks.
BlockOf(c, id) ==
    CHOOSE k \in DOMAIN c.blocks :
        \E p \in DOMAIN c.blocks[k].inputs \cup DOMAIN c.blocks[k].outputs :
            \/ p \in DOMAIN c.blocks[k].inputs /\ c.blocks[k].inputs[p].id = id
            \/ p \in DOMAIN c.blocks[k].outputs /\ c.blocks[k].outputs[p].id = id

\* The ids of all ports.
PortIds(c) ==
    UNION { {c.blocks[k].inputs[p].id : p \in DOMAIN c.blocks[k].inputs}
            \cup {c.blocks[k].outputs[p].id : p \in DOMAIN c.blocks[k].outputs} :
            k \in DOMAIN c.blocks }

\* The pointer within one element of one block only.
Only(c, id, k) == [i \in DOMAIN c.blocks |-> IF i = k THEN id ELSE NoHit]

InitConnect ==
    /\ \E editor \in Editors :
          /\ ~editor.c.aborted
          /\ ctx = editor.c
          /\ current_id = editor.id
    /\ pass = NoPass
    /\ mouse_down = FALSE
    /\ tried = <<>>
    /\ rctx = <<>>
    /\ TimelineAtRest
    /\ ValueAtRest
    /\ nodes = <<>>
    /\ order = NoOrder
    /\ indices = NoOrder
    /\ valid = "unset"

\* The user presses the button on a port, moves the pointer and lets go:
\* two frames of BlockContext::update.  The gesture is noted with the
\* context as the press found it (start) and as the press left it (before).
Drag ==
    /\ ~ctx.aborted
    /\ tried = <<>>
    /\ \E my_id \in PortIds(ctx) :
          \E pressed \in {update(ctx, Frame([pressed |-> TRUE, released |-> FALSE,
                                             down |-> TRUE],
                                            Only(ctx, my_id, BlockOf(ctx, my_id))))} :
             \E release \in FramesOf(pressed,
                                     [pressed |-> FALSE, released |-> TRUE, down |-> FALSE]) :
                /\ ctx' = update(pressed, release)
                /\ tried' = << [ my_id |-> my_id,
                                 under_mouse |-> UnderMouse(pressed, release),
                                 before |-> pressed,
                                 start |-> ctx ] >>
    /\ UNCHANGED <<current_id, pass, mouse_down, rctx>>
    /\ UNCHANGED graph_vars
    /\ UNCHANGED timeline_vars
    /\ UNCHANGED value_vars

NextConnect == Drag

SpecConnect == InitConnect /\ [][NextConnect]_vars

\* The port with an id.
PortOf(c, id) ==
    LET block == c.blocks[BlockOf(c, id)]
        ports == block.inputs \o block.outputs
    IN  ports[CHOOSE p \in DOMAIN ports : ports[p].id = id]

\* Two ports of opposite directionality whose values are of one variant.
Matching(c, a, b) ==
    /\ PortOf(c, a).connection_type # PortOf(c, b).connection_type
    /\ PortOf(c, a).value.tag = PortOf(c, b).value.tag

\* The input end and the output end of a connection.
InputEnd(c, ids) == IF PortOf(c, ids[1]).connection_type = "Inputs" THEN ids[1] ELSE ids[2]
OutputEnd(c, ids) == IF PortOf(c, ids[1]).connection_type = "Inputs" THEN ids[2] ELSE ids[1]

\* The connections a gesture has added.
Added(t) == ctx.connections \ t.before.connections

\* C11: a release that ends a drag adds a connection only between the port
\* dragged and a port under the pointer of the opposite directionality and
\* the same Value variant, and then it adds that one connection with its
\* entries in inputs and input_output; with no such port under the pointer
\* (a Number output let go over a Point input, say) inputs, input_output
\* and connections are what they were, and the program goes on.
C11_ConnectsOnlyMatchingPorts ==
    \A i \in DOMAIN tried :
        LET t == tried[i]
            matching == {q \in t.under_mouse : Matching(ctx, t.my_id, q)}
        IN  /\ t.before.connections \subseteq ctx.connections
            /\ Added(t) \subseteq {<<t.my_id, q>> : q \in matching}
            /\ Cardinality(Added(t)) <= 1
            /\ Added(t) = {} =>
                  /\ ctx.inputs = t.before.inputs
                  /\ ctx.input_output = t.before.input_output
            /\ \A ids \in Added(t) :
                  /\ ~Contains(t.before.inputs, InputEnd(ctx, ids))
                  /\ ctx.inputs = Insert(t.before.inputs, InputEnd(ctx, ids),
                                         PortOf(ctx, OutputEnd(ctx, ids)).parent_id)
                  /\ ctx.input_output = Insert(t.before.input_output, InputEnd(ctx, ids),
                                               OutputEnd(ctx, ids))
            /\ matching = {} => ~ctx.aborted

\* A Number output was let go over a Point input and nothing came of it.
C11_Witness ==
    \E i \in DOMAIN tried :
        LET t == tried[i]
        IN  /\ PortOf(ctx, t.my_id).connection_type = "Outputs"
            /\ PortOf(ctx, t.my_id).value.tag = "Number"
            /\ \E q \in t.under_mouse :
                  /\ PortOf(ctx, q).connection_type = "Inputs"
                  /\ PortOf(ctx, q).value.tag = "Point"
            /\ \A q \in t.under_mouse : ~Matching(ctx, t.my_id, q)
            /\ ctx.connections = t.before.connections
            /\ ctx.connections # {}

\* The ports of a kind, and the connections that end in a port.
PortsOfType(c, connection_type) ==
    {PortOf(c, id) : id \in {q \in PortIds(c) : PortOf(c, q).connection_type = connection_type}}
Incoming(c, id) == {ids \in c.connections : ids[1] = id \/ ids[2] = id}
OtherEnd(ids, id) == IF ids[1] = id THEN ids[2] ELSE ids[1]

\* An input has one incoming connection at most, and inputs and
\* input_output hold its upstream block and port exactly when it has one;
\* an input that is dragging a wire has none.
SingleIncoming(c) ==
    /\ DOMAIN c.inputs = DOMAIN c.input_output
    /\ DOMAIN c.inputs \subseteq {port.id : port \in PortsOfType(c, "Inputs")}
    /\ \A ids \in c.connections :
          \E i \in {1, 2} : PortOf(c, ids[i]).connection_type = "Inputs"
    /\ \A port \in PortsOfType(c, "Inputs") :
          /\ Cardinality(Incoming(c, port.id)) <= 1
          /\ Contains(c.inputs, port.id) <=> Incoming(c, port.id) # {}
          /\ port.is_dragging_line => Incoming(c, port.id) = {}
          /\ \A ids \in Incoming(c, port.id) :
                LET output == OtherEnd(ids, port.id)
                IN  /\ PortOf(c, output).connection_type = "Outputs"
                    /\ c.input_output[port.id] = output
                    /\ c.inputs[port.id] = PortOf(c, output).parent_id

\* A step in which an output that was dragging a wire lets it go.
OutputLetGo ==
    \E port \in PortsOfType(ctx, "Outputs") :
        /\ port.is_dragging_line
        /\ ~PortOf(ctx', port.id).is_dragging_line

\* Every input that had an incoming connection has the same one.
EntriesKept ==
    \A id \in DOMAIN ctx.inputs :
        /\ Contains(ctx'.inputs, id)
        /\ ctx'.inputs[id] = ctx.inputs[id]
        /\ ctx'.input_output[id] = ctx.input_output[id]
        /\ Incoming(ctx', id) = Incoming(ctx, id)

\* C12: whatever the user has added, connected and disconnected, every
\* input port has at most one incoming connection, recorded once in inputs,
\* input_output and connections; a wire let go by an output leaves every
\* input that already had a connection with the one it had, and an input
\* that drags a wire has given its connection up before.  An output may
\* feed many inputs.
C12_OneConnectionPerInput ==
    /\ [](~ctx.aborted => SingleIncoming(ctx))
    /\ [][OutputLetGo => EntriesKept]_vars

\* One output feeds two inputs, an input is fed by one of two outputs that
\* match it, and one connection was dragged from its input end.
C12_Witness ==
    /\ ~ctx.aborted
    /\ \E out \in PortsOfType(ctx, "Outputs") :
          Cardinality(Incoming(ctx, out.id)) = 2
    /\ \E in \in PortsOfType(ctx, "Inputs"), o1, o2 \in PortsOfType(ctx, "Outputs") :
          /\ o1.id # o2.id
          /\ Matching(ctx, in.id, o1.id) /\ Matching(ctx, in.id, o2.id)
          /\ Incoming(ctx, in.id) = {<<in.id, o1.id>>}

(***************************************************************************)
(* Passes over a graph that draws from the generator: an Iterate block     *)
(* feeds PtCombine, whose points feed RandomPoint.                         *)
(***************************************************************************)
\* The largest seed the user sets with the editor's seed field.
MaxSeed == 3
Seeds == 0..MaxSeed
\* Where the bar stands in the item, in hundredths of its length.
Percentages == {0, 50}

SeedOrders ==
    { <<IterationBlock, PtCombineBlock, RandomPointBlock>>,
      <<RandomPointBlock, PtCombineBlock, IterationBlock>> }

\* The blocks added, Iterate's value dragged to PtCombine's x, PtCombine's
\* point dragged to pt0 of RandomPoint and, when `both`, to its pt3, and
\* start and end typed into Iterate.
SeedScene(kinds, start, end, both) ==
    LET added == AddPaletteFrom(EmptyContext, FirstId, kinds, 1)
        a == Named(added.c, "Iterate")
        p == Named(added.c, "PtCombine")
        r == Named(added.c, "RandomPoint")
        c1 == DragConnect(added.c, a, 2, added.c.blocks[p].inputs[1].id)
        c2 == DragConnect(c1, p, 1, c1.blocks[r].inputs[1].id)
        c3 == IF both THEN DragConnect(c2, p, 1, c2.blocks[r].inputs[4].id) ELSE c2
    IN  [c |-> SetValue(SetValue(c3, a, 2, Number(start)), a, 3, Number(end)),
         id |-> added.id]
SeedScenes ==
    { SeedScene(kinds, start, end, both) :
        kinds \in SeedOrders, start \in StartValues, end \in EndValues, both \in BOOLEAN }

InitSeed ==
    /\ \E scene \in SeedScenes :
          /\ ctx = scene.c
          /\ current_id = scene.id
    /\ pass = NoPass
    /\ mouse_down = FALSE
    /\ tried = <<>>
    /\ rctx = <<>>
    /\ TimelineAtRest
    /\ ValueAtRest
    /\ nodes = <<>>
    /\ order = NoOrder
    /\ indices = NoOrder
    /\ valid = "unset"

\* A frame evaluates the item with the seed as the user has set it and the
\* bar where it stands.
RunSeeded ==
    /\ ~ctx.aborted
    /\ \E seed \in Seeds, percentage \in Percentages :
          LET run_ctx == BlockRunContext(ScreenSpace, percentage, seed)
          IN  /\ rctx' = <<run_ctx>>
              /\ pass' = run(ctx, run_ctx)
              /\ ctx' = SelfAfterRun(ctx, run(ctx, run_ctx))
    /\ UNCHANGED <<current_id, mouse_down, tried>>
    /\ UNCHANGED graph_vars
    /\ UNCHANGED timeline_vars
    /\ UNCHANGED value_vars

NextSeed == RunSeeded

SpecSeed == InitSeed /\ [][NextSeed]_vars

ResolutionFails(b) == ~AllUpstream(b) \/ Cardinality(IterationLengths(b)) > 1

\* The calls the pass made of the block.
Invocations(b) == CallsOf(pass.calls, b.id)

\* What the block's calls returned is in previous_outputs.
ResultsKept(b) ==
    \A i \in DOMAIN Invocations(b) :
        Invocations(b)[i].res # <<>> =>
            \A q \in DOMAIN b.outputs \cap DOMAIN Invocations(b)[i].res[1] :
                b.outputs[q].id \in DOMAIN pass.outputs

\* C14: a pass that returns Err returns the one error of the first block
\* in graph_order whose inputs do not resolve (an upstream result is
\* missing, or two Iterations differ in length); that block and every block
\* after it in the order are not invoked, and the blocks before it have
\* been, with their results still in place.
C14_StopsAtFirstFailure ==
    pass.result = "Err" =>
        \E f \in Blocks :
            /\ pass.at = <<f.id>>
            /\ pass.error.block = f.id
            /\ pass.error.kind \in {"missing", "lengths"}
            /\ ResolutionFails(f)
            /\ \A b \in Blocks :
                  IF OrderPlace(b.id) >= OrderPlace(f.id)
                  THEN /\ Invocations(b) = <<>>
                       /\ \A q \in DOMAIN b.outputs : b.outputs[q].id \notin DOMAIN pass.outputs
                  ELSE /\ ~ResolutionFails(b)
                       /\ Len(Invocations(b)) = IF b.flatten_inputs THEN 1 ELSE DueCalls(b)
                       /\ ResultsKept(b)

\* A pass has failed at a block with a block before it that was invoked
\* and returned results, and a block after it.
C14_Witness ==
    /\ pass.result = "Err"
    /\ \E f, before, after \in Blocks :
          /\ pass.at = <<f.id>>
          /\ OrderPlace(before.id) < OrderPlace(f.id)
          /\ OrderPlace(f.id) < OrderPlace(after.id)
          /\ Invocations(before) # <<>>
          /\ \E q \in DOMAIN before.outputs : before.outputs[q].id \in DOMAIN pass.outputs
          /\ Invocations(after) = <<>>

\* graph_order lists every block once, and every block after the blocks
\* that its connected inputs are fed by.
TopologicalOrder ==
    /\ Len(ctx.graph_order) = Len(ctx.blocks)
    /\ \A b \in Blocks : \E k \in DOMAIN ctx.graph_order :
          ctx.graph[ctx.graph_order[k]].value = b.id
    /\ \A b \in Blocks : \A p \in DOMAIN b.inputs :
          Connected(b, p) => OrderPlace(ctx.inputs[b.inputs[p].id]) < OrderPlace(b.id)

\* Every call the pass made returned Some, with a result for every output
\* port of its block.
FullResults ==
    \A b \in Blocks : \A i \in DOMAIN Invocations(b) :
        /\ Invocations(b)[i].res # <<>>
        /\ Len(Invocations(b)[i].res[1]) = Len(b.outputs)

\* C15 (as claimed): when graph_order is a topological order of the
\* connections and every call of a run function returns one result for
\* each output port of its block, the pass does not end with the error
\* "failed to find a value from the previous output map".
C15_NoDanglingError ==
    (pass.result # "none" /\ TopologicalOrder /\ FullResults) =>
        ~(pass.result = "Err" /\ pass.error.kind = "missing")

RECURSIVE DependsOnDue(_, _, _)
DependsOnDue(c, k, p) ==
    IF p > Len(c.blocks[k].inputs) THEN <<>>
    ELSE LET id == c.blocks[k].inputs[p].id
         IN  (IF Contains(c.inputs, id) THEN <<c.block_ids[c.inputs[id]]>> ELSE <<>>)
             \o DependsOnDue(c, k, p + 1)

\* The graph has a node for each block, in block order, and the edges of
\* the inputs map and no others; graph_order is calculate_order_indices of
\* it and holds every block once.
GraphMatches(c) ==
    /\ Len(c.graph) = Len(c.blocks)
    /\ \A k \in DOMAIN c.blocks :
          /\ c.graph[k].value = c.blocks[k].id
          /\ c.block_ids[c.blocks[k].id] = k
          /\ c.graph[k].depends_on = DependsOnDue(c, k, 1)
          /\ \A a \in DOMAIN c.blocks :
                Count(c.graph[k].is_dependent_of, a) = Count(c.graph[a].depends_on, k)
    /\ calculate_order_indices(c.graph).status = "ok"
    /\ c.graph_order = calculate_order_indices(c.graph).list
    /\ IsPermutation(c.graph_order, Len(c.blocks))

\* C17: at every frame, where a pass may start, after whatever blocks the
\* user has added and whatever wires the user has connected and
\* disconnected, the graph has one node per block in block order, an edge
\* from A to B for each input port of A whose entry in inputs is B and no
\* other edge, and graph_order is what calculate_order_indices makes of
\* that graph: every block, once.
C17_GraphMatchesConnections ==
    ~ctx.aborted => GraphMatches(ctx)

\* Three blocks, two wires, one of them put back after it was taken off
\* its input, and an evaluation order that is not the order of the blocks.
C17_Witness ==
    /\ ~ctx.aborted
    /\ Len(ctx.blocks) = 3
    /\ Cardinality(ctx.connections) = 2
    /\ \E ids \in ctx.connections : PortOf(ctx, ids[1]).connection_type = "Inputs"
    /\ ctx.graph_order # <<1, 2, 3>>
    /\ GraphMatches(ctx)

\* The elements in the dragging state: the ports that drag a wire and the
\* blocks that are dragged; and the ids of all elements.
Dragging(c) ==
    {id \in PortIds(c) : PortOf(c, id).is_dragging_line}
    \cup {c.blocks[k].id : k \in {i \in DOMAIN c.blocks : c.blocks[i].being_dragged_from}}
ElementIds(c) == PortIds(c) \cup {c.blocks[k].id : k \in DOMAIN c.blocks}

\* At most one element drags, and it is the one that holds the token;
\* can_drag grants the token when nobody holds it and never else;
\* release_drag frees it for its holder and for nobody else.
OneDragging(c) ==
    /\ Cardinality(Dragging(c)) <= 1
    /\ \A id \in Dragging(c) : c.currently_dragging = <<id>>
    /\ c.currently_dragging # <<>> => c.currently_dragging[1] \in Dragging(c)
    /\ \A id \in ElementIds(c) :
          /\ can_drag(c, id).granted <=> c.currently_dragging = <<>>
          /\ ~can_drag(c, id).granted => can_drag(c, id).c = c
          /\ can_drag(c, id).granted => can_drag(c, id).c.currently_dragging = <<id>>
          /\ c.currently_dragging = <<id>> => release_drag(c, id).currently_dragging = <<>>
          /\ c.currently_dragging # <<id>> => release_drag(c, id) = c

\* C19: at most one element, a port dragging a wire or a block, is in the
\* dragging state at any time, and it holds the token; can_drag grants
\* only when no element holds the token; the token, once held, stays with
\* its holder until the holder's release_drag, and release_drag with
\* another id leaves it held.
C19_OneElementDrags ==
    /\ [](~ctx.aborted => OneDragging(ctx))
    /\ [][(ctx.currently_dragging # <<>> /\ ~ctx'.aborted) =>
             \/ ctx'.currently_dragging = ctx.currently_dragging
             \/ /\ ctx'.currently_dragging = <<>>
                /\ Dragging(ctx') = {}]_vars

\* A port drags a wire and holds the token, over a block whose body the
\* pointer could be within.
C19_Witness ==
    /\ ~ctx.aborted
    /\ mouse_down
    /\ Len(ctx.blocks) >= 2
    /\ \E id \in PortIds(ctx) :
          /\ Dragging(ctx) = {id}
          /\ ctx.currently_dragging = <<id>>

\* C18 (as claimed): every pass comes to an end, with Ok or with its first
\* error, whatever graph the user has built from the catalog and whatever
\* values its inputs hold; Iterate's run function returns for every start,
\* end and step.
C18_EveryPassEnds ==
    pass.result # "diverges"

(***************************************************************************)
(* The timeline (src/src/main.rs): Timeline::run, once a frame.            *)
(*                                                                         *)
(* Positions and lengths on the timeline are f32 and the model holds them  *)
(* as whole numbers of pixels, rounding every sum and difference to f32.   *)
(* A quotient of two f32 is held as the pair <<n, d>> of its operands: the *)
(* f32 n / d, for 0 <= n and 0 < d, is below 1 exactly when n < d and is 1 *)
(* exactly when n = d, since the f32 next below d, divided by d, is at     *)
(* most 1 - 2^-24, which is an f32.                                        *)
(***************************************************************************)
\* The most items laid on the timeline, and the most ticks looked at.
MaxItems == 2
MaxTicks == 3

\* screen_size(): a window whose width gives a step of one pixel a frame
\* (1800 / 30 / 60), both divisions exact.
screen_size == <<1800, 600>>

\* Timeline::dimensions: (x, y, width, height) of the timeline's strip at
\* the bottom of the window.
Timeline_dimensions(t) ==
    LET s_width == screen_size[1]
        s_height == screen_size[2]
        height0 == (s_height * t.percentage_height[1]) \div t.percentage_height[2]
        height1 == IF height0 > t.max_height THEN t.max_height ELSE height0
        height == IF height1 < t.min_height THEN t.min_height ELSE height1
    IN  <<0, s_height - height, s_width, height>>

\* EditorWindow::new() and EditorWindow::dimensions: the editor is 350 wide
\* and ends 12 above the timeline.
EditorWindow_new == [width |-> 350, bottom_margin |-> 12]
EditorWindow_dimensions(window, t) ==
    <<screen_size[1] - window.width, 0, window.width,
      Timeline_dimensions(t)[2] - window.bottom_margin>>

\* TimelineItem { x, y, length, blocks, color }, without its color.
TimelineItem(x, y, length, blocks) ==
    [x |-> x, y |-> y, length |-> length, blocks |-> blocks]

\* The message Timeline::run puts before the first error of a queue.
PausingPreview == [NoError EXCEPT !.kind = "pausing preview"]

\* self.bar_pos >= item.x && self.bar_pos < item.x + item.length
UnderBar(bar_pos, item) ==
    /\ bar_pos >= item.x
    /\ bar_pos < F32(item.x + item.length)
\* (self.bar_pos - item.x) / item.length
Percentage(bar_pos, item) == <<F32(bar_pos - item.x), item.length>>

\* for item in timeline_items: the entries (item.y, percentage, item) of
\* should_run_items, from item k on; an item is named by its index.
RECURSIVE ShouldRunFrom(_, _, _)
ShouldRunFrom(bar_pos, items, k) ==
    IF k > Len(items) THEN <<>>
    ELSE (IF UnderBar(bar_pos, items[k])
          THEN << [y |-> items[k].y, percentage |-> Percentage(bar_pos, items[k]),
                   item |-> k] >>
          ELSE <<>>)
         \o ShouldRunFrom(bar_pos, items, k + 1)

\* An entry put into a sequence sorted by descending y, behind the entries
\* it does not come before.
RECURSIVE InsertByY(_, _)
InsertByY(sorted, e) ==
    IF sorted = <<>> THEN <<e>>
    ELSE IF e.y > Head(sorted).y THEN <<e>> \o sorted
    ELSE <<Head(sorted)>> \o InsertByY(Tail(sorted), e)
RECURSIVE SortFrom(_, _, _)
SortFrom(s, k, sorted) ==
    IF k > Len(s) THEN sorted ELSE SortFrom(s, k + 1, InsertByY(sorted, s[k]))

\* The entries left in the order of the items.
sort_by_skipped(should_run_items) == should_run_items
\* should_run_items.sort_by(|a, b| b.0.partial_cmp(&a.0).unwrap()): a stable
\* sort, the larger y first.
sort_by(should_run_items) == SortFrom(should_run_items, 1, <<>>)

\* ErrorQueue::has_errors that sees no message.
has_errors_never(error_queue) == FALSE
\* ErrorQueue::has_errors
has_errors(error_queue) == Len(error_queue) > 0

\* A pass as the tick notes it: the item, the context made for it, how the
\* pass ended and with which message, the generator as the pass left it,
\* and the messages the tick has put into the queue for it.
PassOf(item, run_ctx, outcome, pushed) ==
    [item |-> item, run_ctx |-> run_ctx, result |-> outcome.result,
     error |-> outcome.error, rng |-> outcome.rng, pushed |-> pushed]

\* The tick after a pass whose Err is queued with no explanation.
AfterPassBare(st, item, run_ctx, outcome) ==
    IF outcome.result = "Err"
    THEN [running |-> FALSE,
          errors |-> st.errors \o <<outcome.error>>,
          ran |-> Append(st.ran, PassOf(item, run_ctx, outcome, <<outcome.error>>))]
    ELSE [st EXCEPT !.ran = Append(@, PassOf(item, run_ctx, outcome, <<>>))]
\* The tick after a pass: an Err stops the bar and is queued behind the
\* explanation, which is put first into an empty queue.  st holds running,
\* errors, and the passes made so far.
AfterPass(st, item, run_ctx, outcome) ==
    IF outcome.result = "Err"
    THEN LET pushed == (IF Len(st.errors) = 0 THEN <<PausingPreview>> ELSE <<>>)
                       \o <<outcome.error>>
         IN  [running |-> FALSE,
              errors |-> st.errors \o pushed,
              ran |-> Append(st.ran, PassOf(item, run_ctx, outcome, pushed))]
    ELSE [st EXCEPT !.ran = Append(@, PassOf(item, run_ctx, outcome, <<>>))]
\* One context made before the loop: an item is handed the generator as
\* the pass before it has left it.
ItemContextShared(screen_space, percentage, seed, st) ==
    [BlockRunContext(screen_space, percentage, seed) EXCEPT
        !.rng = IF st.ran = <<>> THEN @ ELSE st.ran[Len(st.ran)].rng]
\* let mut ctx = BlockRunContext { .., rng: ChaCha8Rng::seed_from_u64(*seed) }
\* in the body of the loop: made anew for every entry, whatever the passes
\* before it (st) have done.
ItemContext(screen_space, percentage, seed, st) ==
    BlockRunContext(screen_space, percentage, seed)

\* item.blocks.run(&mut ctx)
RunItem(st, item, run_ctx, items) ==
    AfterPass(st, item, run_ctx, run(items[item].blocks, run_ctx))

\* for (_, percentage, item) in should_run_items, from entry k on: the
\* context is made for every entry, and the pass runs while the queue holds
\* no error.
RECURSIVE RunItemsFrom(_, _, _, _, _)
RunItemsFrom(sorted, k, items, screen_space, st) ==
    IF k > Len(sorted) THEN st
    ELSE RunItemsFrom(sorted, k + 1, items, screen_space,
                      IF has_errors(st.errors) THEN st
                      ELSE RunItem(st, sorted[k].item,
                                   ItemContext(screen_space, sorted[k].percentage,
                                               rand_seed, st),
                                   items))

\* if self.running: the bar moves a step and goes back to 0 once it is
\* beyond the width.
MoveBar(t, width, step_per_frame, st) ==
    [timeline |-> [t EXCEPT !.running = st.running,
                            !.bar_pos = IF ~st.running THEN @
                                        ELSE IF F32(@ + step_per_frame) > width THEN 0
                                        ELSE F32(@ + step_per_frame)],
     errors |-> st.errors, ran |-> st.ran]

\* Timeline::run: the timeline, the queue and the passes made.
Timeline_run(t, items, screen_space, error_queue) ==
    MoveBar(t, Timeline_dimensions(t)[3],
            (Timeline_dimensions(t)[3] \div t.total_time_secs) \div 60,
            RunItemsFrom(sort_by(ShouldRunFrom(t.bar_pos, items, 1)), 1, items,
                         screen_space,
                         [running |-> t.running, errors |-> error_queue, ran |-> <<>>]))

\* The blocks of an item whose pass fails: two Iterate blocks of one and of
\* two values feed the two inputs of a PtCombine block.  The blocks are
\* added with ids from `id` on.
FailingOrder == <<"A", "B", "C", "F">>
FailingBlocks(id) ==
    LET added == AddSceneBlocks(EmptyContext, id, FailingOrder,
                                <<PtCombineBlock, FlattenPointsBlock>>, 1)
        c1 == WireConsumerFrom(added.c, FailingOrder, << <<"A", 1>>, <<"B", 1>> >>, 1)
    IN  [c |-> SetRanges(c1, FailingOrder, 0, 0, 10), id |-> added.id]

\* The blocks of an item whose pass draws from the generator: a RandomPoint
\* block.
RandomBlocks(id) ==
    [c |-> add_block(EmptyContext, to_draggable_block(RandomPointBlock, id)),
     id |-> id + IdsTaken(RandomPointBlock)]

\* Where an item is laid (its x and its length: far to the left and ending
\* at 4, or short and at the start), how high, and whether its blocks fail;
\* a plain item has the blocks main gives it, BlockContext::new([]).
ItemSpans == { <<0 - F32Significand, F32Significand + 4>>, <<0, 2>>, <<2, 2>> }
ItemYs == {700, 710}
ItemChoices ==
    { [x |-> span[1], y |-> y, length |-> span[2], kind |-> kind] :
        span \in ItemSpans, y \in ItemYs, kind \in {"plain", "failing"} }
ItemChoiceLists == UNION { [1..n -> ItemChoices] : n \in 0..MaxItems }

\* The blocks of an item, made with ids from `id` on.
ItemBlocks(kind, id) ==
    CASE kind = "failing" -> FailingBlocks(id)
      [] kind = "random" -> RandomBlocks(id)
      [] OTHER -> [c |-> EmptyContext, id |-> id]
\* An item before the items laid after it.
LaidBefore(choice, blocks, rest) ==
    [items |-> <<TimelineItem(choice.x, choice.y, choice.length, blocks.c)>>
               \o rest.items,
     id |-> rest.id]
\* The items of a list of choices, from choice k on, and CURRENT_ID after.
RECURSIVE LayItemsFrom(_, _, _)
RECURSIVE LayNext(_, _, _)
LayNext(choices, k, blocks) ==
    LaidBefore(choices[k], blocks, LayItemsFrom(choices, k + 1, blocks.id))
LayItemsFrom(choices, k, id) ==
    IF k > Len(choices) THEN [items |-> <<>>, id |-> id]
    ELSE LayNext(choices, k, ItemBlocks(choices[k].kind, id))

\* Where a click has put the bar.
BarPositions == {0, 3, 1799}

\* Items lie on the timeline, the bar stands where a click has put it, the
\* space key has set it running or not, and the queue is empty or holds a
\* message not yet dismissed; no item is open.
InitTimeline ==
    /\ \E bar_pos \in BarPositions, running \in BOOLEAN :
          timeline = [Timeline_new(<<1, 4>>) EXCEPT !.bar_pos = bar_pos,
                                                    !.running = running]
    /\ \E choices \in ItemChoiceLists :
          \E laid \in {LayItemsFrom(choices, 1, FirstId)} :
             /\ timeline_items = laid.items
             /\ current_id = laid.id
    /\ errors \in {<<>>, <<PausingPreview>>}
    /\ failures = Len(errors)
    /\ ValueAtRest
    /\ ran = <<>>
    /\ ticks = 0
    /\ ctx = EmptyContext
    /\ pass = NoPass
    /\ mouse_down = FALSE
    /\ tried = <<>>
    /\ rctx = <<>>
    /\ nodes = <<>>
    /\ order = NoOrder
    /\ indices = NoOrder
    /\ valid = "unset"

\* let (x, _, _, h) = window.dimensions(&timeline): the (x, h) main hands on.
ScreenSpaceOf(dimensions) == <<dimensions[1], dimensions[4]>>

\* How many of the passes returned an Err.
Errs(passes) == Cardinality({k \in DOMAIN passes : passes[k].result = "Err"})

\* A frame of main's loop: timeline.run(&timeline_items, (x, h), &mut errors,
\* &mut rand_seed), with (x, _, _, h) = window.dimensions(&timeline).
Tick ==
    /\ ticks < MaxTicks
    /\ \E after \in {Timeline_run(timeline, timeline_items,
                                   ScreenSpaceOf(EditorWindow_dimensions(EditorWindow_new,
                                                                         timeline)),
                                   errors)} :
          /\ timeline' = after.timeline
          /\ errors' = after.errors
          /\ ran' = after.ran
          /\ failures' = failures + Errs(after.ran)
    /\ ticks' = ticks + 1
    /\ UNCHANGED <<timeline_items, ctx, current_id, pass, mouse_down, tried, rctx>>
    /\ UNCHANGED graph_vars
    /\ UNCHANGED value_vars

NextTimeline == Tick

SpecTimeline == InitTimeline /\ [][NextTimeline]_vars

\* The items under the bar.
ItemsUnderBar == {i \in DOMAIN timeline_items : UnderBar(timeline.bar_pos, timeline_items[i])}
\* The passes are of the items under the bar, one each, the larger y first,
\* each with the progress of the bar through its item.
RunsItemsUnderBar(passes) ==
    /\ {passes[k].item : k \in DOMAIN passes} = ItemsUnderBar
    /\ Len(passes) = Cardinality(ItemsUnderBar)
    /\ \A k \in DOMAIN passes :
          passes[k].run_ctx.percentage =
              Percentage(timeline.bar_pos, timeline_items[passes[k].item])
    /\ \A j, k \in DOMAIN passes :
          timeline_items[passes[j].item].y > timeline_items[passes[k].item].y => j < k

\* C20 (as claimed): in a tick with an empty error queue and no failing
\* item, the items evaluated are exactly those with x <= bar_pos <
\* x + length, each with progress (bar_pos - x) / length at least 0 and
\* below 1, and an item with larger y is evaluated before one with smaller y.
C20_RunsItemsUnderBarBelowOne ==
    [][(errors = <<>> /\ errors' = <<>>) =>
          /\ RunsItemsUnderBar(ran')
          /\ \A k \in DOMAIN ran' :
                /\ ran'[k].run_ctx.percentage[1] >= 0
                /\ ran'[k].run_ctx.percentage[1] < ran'[k].run_ctx.percentage[2]]_vars

\* C20: in a tick with an empty error queue and no failing item, the items
\* evaluated are exactly those with x <= bar_pos < x + length, an item with
\* larger y before one with smaller y, each with progress
\* (bar_pos - x) / length at least 0 and at most 1; the progress is below 1
\* whenever the f32 difference bar_pos - x is exact, and is 1 when the
\* difference rounds up to length.
C20_RunsItemsUnderBar ==
    [][(errors = <<>> /\ errors' = <<>>) =>
          /\ RunsItemsUnderBar(ran')
          /\ \A k \in DOMAIN ran' :
                LET item == timeline_items[ran'[k].item]
                    percentage == ran'[k].run_ctx.percentage
                IN  /\ percentage[1] >= 0
                    /\ percentage[1] <= percentage[2]
                    /\ percentage[1] = timeline.bar_pos - item.x =>
                          percentage[1] < percentage[2]
                    /\ percentage[1] = percentage[2] =>
                          timeline.bar_pos - item.x < item.length]_vars

\* A tick has evaluated two items, the later of the list first since its y
\* is larger, and the first of them with progress 1; no pass failed.
C20_Witness ==
    /\ ticks > 0
    /\ errors = <<>>
    /\ Len(ran) = 2
    /\ ran[1].item > ran[2].item
    /\ timeline_items[ran[1].item].y > timeline_items[ran[2].item].y
    /\ ran[1].run_ctx.percentage[1] = ran[1].run_ctx.percentage[2]
    /\ ran[2].run_ctx.percentage[1] < ran[2].run_ctx.percentage[2]

(***************************************************************************)
(* Frames of main's loop with no item open: the keys and the mouse of the  *)
(* frame go to Timeline::handle_input, Timeline::run evaluates, and        *)
(* ErrorQueue::draw takes the click on the X of a message.                 *)
(***************************************************************************)
\* The most frames looked at.
MaxFrames == 4

\* The left button of a frame: not pressed, pressed within the timeline's
\* strip and on no item (at mx), or pressed within the X of the message in
\* a row of the error queue; the rows lie above the strip, one below the
\* other.  A queue holds two messages at most, so two rows are enough.
ClickXs == {3}
Clicks ==
    {[kind |-> "none", mx |-> 0, row |-> 0]}
    \cup {[kind |-> "bar", mx |-> mx, row |-> 0] : mx \in ClickXs}
    \cup {[kind |-> "x", mx |-> 0, row |-> row] : row \in {1, 2}}

\* Timeline::handle_input: the space key toggles running; a press of the
\* button on no item and below the top of the strip puts the bar at mx.
handle_input(t, space, click) ==
    [t EXCEPT !.running = IF space THEN ~@ ELSE @,
              !.bar_pos = IF click.kind = "bar" THEN click.mx ELSE @]

\* ErrorQueue::draw: the message whose X the button was pressed within is
\* removed.
ErrorQueue_draw(error_queue, click) ==
    IF click.kind = "x" /\ click.row \in DOMAIN error_queue
    THEN [k \in 1..(Len(error_queue) - 1) |->
             IF k < click.row THEN error_queue[k] ELSE error_queue[k + 1]]
    ELSE error_queue

\* The items of these frames: long or short, plain, failing or drawing
\* from the generator, all at one height.
FrameSpans == { <<0, 4>>, <<2, 2>> }
FrameChoices ==
    { [x |-> span[1], y |-> 700, length |-> span[2], kind |-> kind] :
        span \in FrameSpans, kind \in {"plain", "failing", "random"} }
FrameChoiceLists == UNION { [1..n -> FrameChoices] : n \in 0..MaxItems }

\* main before its loop, with items laid on the timeline.
InitFrames ==
    /\ timeline = Timeline_new(<<1, 4>>)
    /\ \E choices \in FrameChoiceLists :
          \E laid \in {LayItemsFrom(choices, 1, FirstId)} :
             /\ timeline_items = laid.items
             /\ current_id = laid.id
    /\ errors = <<>>
    /\ failures = 0
    /\ ValueAtRest
    /\ ran = <<>>
    /\ ticks = 0
    /\ ctx = EmptyContext
    /\ pass = NoPass
    /\ mouse_down = FALSE
    /\ tried = <<>>
    /\ rctx = <<>>
    /\ nodes = <<>>
    /\ order = NoOrder
    /\ indices = NoOrder
    /\ valid = "unset"

\* A frame of main's loop: timeline.handle_input, timeline.run, errors.draw.
MainFrame ==
    /\ ticks < MaxFrames
    /\ \E space \in BOOLEAN, click \in Clicks :
          \E after \in {Timeline_run(handle_input(timeline, space, click), timeline_items,
                                      ScreenSpaceOf(EditorWindow_dimensions(EditorWindow_new,
                                                                            timeline)),
                                      errors)} :
             /\ timeline' = after.timeline
             /\ errors' = ErrorQueue_draw(after.errors, click)
             /\ ran' = after.ran
             /\ failures' = failures + Errs(after.ran)
    /\ ticks' = ticks + 1
    /\ UNCHANGED <<timeline_items, ctx, current_id, pass, mouse_down, tried, rctx>>
    /\ UNCHANGED graph_vars
    /\ UNCHANGED value_vars

NextFrames == MainFrame

SpecFrames == InitFrames /\ [][NextFrames]_vars

\* The items under the bar whose blocks fail.
FailingUnderBar ==
    {i \in ItemsUnderBar : run(timeline_items[i].blocks, RunContext).result = "Err"}

\* C21: once a pass of a tick has returned an Err no further item is
\* evaluated in that tick, so a failed pass is the last pass of its tick;
\* and a tick that finds a message in the error queue evaluates no item, so
\* that items are evaluated again only in a tick that finds the queue empty.
C21_ErrorsStopEvaluation ==
    /\ [](\A k \in DOMAIN ran : ran[k].result = "Err" => k = Len(ran))
    /\ [][errors # <<>> => ran' = <<>>]_vars

\* Two failing items lie under the bar; one of them has failed, and the
\* last tick, with messages in the queue, has evaluated neither.
C21_Witness ==
    /\ ticks >= 2
    /\ failures = 1
    /\ errors # <<>>
    /\ ran = <<>>
    /\ ~timeline.running
    /\ Cardinality(FailingUnderBar) >= 2

\* C22 (as claimed): after an evaluation error the playhead is frozen:
\* while a message is in the error queue auto-run stays disabled, so that
\* Timeline::run does not advance the bar, whatever keys arrive in between.
C22_PlayheadFrozen ==
    errors # <<>> => ~timeline.running

\* The failed passes of the last tick.
FailedPasses == {k \in DOMAIN ran : ran[k].result = "Err"}

\* C23 (as claimed): the explanatory message is put into the queue only
\* for the first failure of a session, in front of the failure's own
\* message; every later failure, also one after all earlier messages were
\* dismissed, puts only its own message.
C23_ExplainedOncePerSession ==
    [][\A k \in DOMAIN ran' :
          ran'[k].result = "Err" =>
             ran'[k].pushed = IF failures = 0 THEN <<PausingPreview, ran'[k].error>>
                              ELSE <<ran'[k].error>>]_vars

\* C23: every failure puts the explanatory message into the queue in front
\* of its own message, the first failure of a session as every later one:
\* a pass runs only while the queue is empty, so a failure always finds the
\* queue empty, and the queue after it holds these two messages.
C23_ExplainedWheneverQueueEmpty ==
    [][\A k \in DOMAIN ran' :
          ran'[k].result = "Err" =>
             /\ errors = <<>>
             /\ ran'[k].pushed = <<PausingPreview, ran'[k].error>>
             /\ ran'[k].error.kind # ""]_vars

\* A second failure of the session, after the messages of the first were
\* dismissed: it has put the explanation and its own message.
C23_Witness ==
    /\ failures >= 2
    /\ FailedPasses # {}
    /\ \A k \in FailedPasses : ran[k].pushed = <<PausingPreview, ran[k].error>>

\* C24: every item evaluated in a tick starts with a generator freshly
\* seeded from the seed, one that has drawn nothing, whatever the items
\* before it in the tick and the ticks before have drawn; and its pass
\* leaves the generator as the pass of the item alone would.
C24_FreshGeneratorPerItem ==
    \A k \in DOMAIN ran :
       /\ ran[k].run_ctx.rng = [seed |-> rand_seed, draws |-> 0]
       /\ ran[k].rng =
             run(timeline_items[ran[k].item].blocks,
                 [ran[k].run_ctx EXCEPT !.rng = [seed |-> rand_seed, draws |-> 0]]).rng

\* In a tick after the first, two items were evaluated and each of them
\* has drawn from its generator.
C24_Witness ==
    /\ ticks >= 2
    /\ Len(ran) = 2
    /\ ran[1].rng.draws > 0
    /\ ran[2].rng.draws > 0
    /\ ran[2].run_ctx.rng.draws = 0

(***************************************************************************)
(* The accessors of InputValue, called on the values the From impls and    *)
(* the list variants build.                                                *)
(***************************************************************************)
MaxOptions == 2
Accessors == {"as_f32", "as_f64", "as_point", "as_list_points", "as_color", "as_str"}

\* The slices of option names of at most MaxOptions names.
OptionNames == <<"none", "sigmoid", "linear">>
OptionSlices == {SubSeq(OptionNames, 1, n) : n \in 0..MaxOptions}

\* The values a caller builds: x.into() for a number, a point, a color and a
\* slice of names, and the two list variants.
InputValues ==
    {Number(n) : n \in {0, 7, 0 - 3, 16777217}}
    \cup {Point(x, y) : x \in {0, 5}, y \in {0, 9}}
    \cup {Color(0, 0, 0, 1), Color(1, 1, 1, 1), Color(1, 0, 0, 0)}
    \cup {FromStrs(x) : x \in OptionSlices}
    \cup {ListNumbers(ns) : ns \in {<<>>, <<4>>, <<4, 6>>}}
    \cup {ListPoints(pts) : pts \in {<<>>, << <<1, 2>> >>, << <<1, 2>>, <<3, 4>> >>}}

InitValue ==
    /\ input_value \in {<<v>> : v \in InputValues}
    /\ got = <<>>
    /\ nodes = <<>>
    /\ order = NoOrder
    /\ indices = NoOrder
    /\ valid = "unset"
    /\ ctx = EmptyContext
    /\ current_id = FirstId
    /\ pass = NoPass
    /\ mouse_down = FALSE
    /\ tried = <<>>
    /\ rctx = <<>>
    /\ TimelineAtRest

\* What the accessor named acc does on the value v.
Access(acc, v) ==
    CASE acc = "as_f32" -> Gave(as_f32(v))
      [] acc = "as_f64" -> Gave(as_f64(v))
      [] acc = "as_point" -> Gave(as_point(v))
      [] acc = "as_list_points" -> Gave(as_list_points(v))
      [] acc = "as_color" -> Gave(as_color(v))
      [] acc = "as_str" -> as_str(v)

\* value.as_...(): a process that has panicked calls nothing more.
CallAccessor ==
    /\ \A k \in DOMAIN got : got[k].returned
    /\ \E acc \in Accessors :
          got' = <<[accessor |-> acc] @@ Access(acc, input_value[1])>>
    /\ UNCHANGED input_value
    /\ UNCHANGED <<ctx, current_id, pass, mouse_down, tried, rctx>>
    /\ UNCHANGED graph_vars
    /\ UNCHANGED timeline_vars

\* draw_block_set: the ComboBox of a Selection input sets the index to the
\* alternative the user picks, one of 0..alternatives.len() - 1.
SelectAlternative ==
    /\ \A k \in DOMAIN got : got[k].returned
    /\ input_value[1].tag = "Selection"
    /\ \E selected \in 0..(Len(input_value[1].opts) - 1) :
          /\ selected # input_value[1].nums[1]
          /\ input_value' = <<[input_value[1] EXCEPT !.nums = <<selected>>]>>
    /\ got' = <<>>
    /\ UNCHANGED <<ctx, current_id, pass, mouse_down, tried, rctx>>
    /\ UNCHANGED graph_vars
    /\ UNCHANGED timeline_vars

NextValue == CallAccessor \/ SelectAlternative

SpecValue == InitValue /\ [][NextValue]_vars

\* What the accessor returns on a value: the stored payload (as the type of
\* the accessor holds it) when the variant is the accessor's, its zero
\* value otherwise.
Stored(acc, v) ==
    CASE acc = "as_f32" -> IF v.tag = "Number" THEN F32(v.nums[1]) ELSE 0
      [] acc = "as_f64" -> IF v.tag = "Number" THEN v.nums[1] ELSE 0
      [] acc = "as_point" -> IF v.tag = "Point" THEN <<v.nums[1], v.nums[2]>> ELSE <<0, 0>>
      [] acc = "as_list_points" -> IF v.tag = "ListPoints" THEN PointsOf(v.nums) ELSE <<>>
      [] acc = "as_color" -> IF v.tag = "Color" THEN v.nums ELSE <<0, 0, 0, 0>>
      [] acc = "as_str" -> IF v.tag = "Selection" /\ v.nums[1] < Len(v.opts)
                           THEN v.opts[v.nums[1] + 1] ELSE ""

\* C25: every accessor, on every value, returns normally, and returns the
\* stored value when the variant matches and the zero value of its type
\* otherwise.
C25_AccessorsReturn ==
    \A k \in DOMAIN got :
       /\ got[k].returned
       /\ got[k].result = <<Stored(got[k].accessor, input_value[1])>>

\* Apart from as_str on a Selection whose index is past its options, every
\* call returns the stored value or the zero value.
C25_AccessorsReturnInRange ==
    \A k \in DOMAIN got :
       \/ /\ got[k].accessor = "as_str"
          /\ input_value[1].tag = "Selection"
          /\ input_value[1].nums[1] >= Len(input_value[1].opts)
          /\ ~got[k].returned
       \/ /\ got[k].returned
          /\ got[k].result = <<Stored(got[k].accessor, input_value[1])>>

(***************************************************************************)
(* The connection maps of the BlockContext.                                *)
(***************************************************************************)
\* The ids of the blocks of c that own an output port with that id.
OwnersOfOutput(c, id) ==
    {c.blocks[k].id : k \in {m \in DOMAIN c.blocks :
                                \E p \in DOMAIN c.blocks[m].outputs :
                                   c.blocks[m].outputs[p].id = id}}
IsInputPort(c, id) ==
    \E k \in DOMAIN c.blocks : \E p \in DOMAIN c.blocks[k].inputs :
       c.blocks[k].inputs[p].id = id

\* The maps are parallel, the key of a connection being one of `keys(input,
\* output)`: inputs and input_output have the same keys, all of them input
\* ports; each has exactly one connection, between it and the output
\* input_output gives, and connections holds nothing else; inputs gives the
\* block that owns that output.
MapsParallel(c, keys(_, _)) ==
    /\ DOMAIN c.inputs = DOMAIN c.input_output
    /\ \A input \in DOMAIN c.inputs :
          /\ IsInputPort(c, input)
          /\ Cardinality(keys(input, c.input_output[input]) \cap c.connections) = 1
          /\ OwnersOfOutput(c, c.input_output[input]) = {c.inputs[input]}
    /\ \A ids \in c.connections :
          \E input \in DOMAIN c.inputs : ids \in keys(input, c.input_output[input])
    /\ Cardinality(c.connections) = Cardinality(DOMAIN c.inputs)

InputThenOutput(input, output) == {<<input, output>>}
EitherOrder(input, output) == {<<input, output>>, <<output, input>>}

\* C26 as stated: the maps are parallel, and the key of a connection is
\* (input id, output id).
C26_MapsParallelInputFirst == MapsParallel(ctx, InputThenOutput)

\* C26: the maps are parallel in every state the editor reaches, after any
\* connects and disconnects, the key of a connection holding the input id
\* and the output id in either order; a connection that has gone from one
\* map has gone from all three.
C26_MapsParallel == MapsParallel(ctx, EitherOrder)

\* Two connections are held, one with the input id first in its key and
\* one with the output id first.
C26_Witness ==
    /\ \E ids \in ctx.connections : IsInputPort(ctx, ids[1])
    /\ \E ids \in ctx.connections : IsInputPort(ctx, ids[2])

\* The ports under the pointer the dragged port can be connected to: of
\* the opposite directionality, of the same variant, and of another block.
Connectable(t) ==
    {q \in t.under_mouse : /\ Matching(ctx, t.my_id, q)
                           /\ BlockOf(ctx, q) # BlockOf(ctx, t.my_id)}

\* The gesture began on an input that had a connection, and the press was
\* granted the drag.
DraggedFromConnectedInput(t) ==
    /\ PortOf(t.start, t.my_id).connection_type = "Inputs"
    /\ Contains(t.start.inputs, t.my_id)
    /\ t.before.currently_dragging = <<t.my_id>>

\* C27: a drag that begins on a connected input and is granted the token
\* has, when the press is over, removed that input's connection from
\* inputs, input_output and connections, and only that one; so the release
\* over a port the input can be connected to connects it.
C27_DetachedBeforeConnect ==
    \A i \in DOMAIN tried :
        LET t == tried[i]
        IN  DraggedFromConnectedInput(t) =>
               /\ ~Contains(t.before.inputs, t.my_id)
               /\ ~Contains(t.before.input_output, t.my_id)
               /\ Incoming(t.before, t.my_id) = {}
               /\ t.before.connections = t.start.connections \ Incoming(t.start, t.my_id)
               /\ Connectable(t) # {} =>
                     /\ Contains(ctx.inputs, t.my_id)
                     /\ ctx.input_output[t.my_id] \in Connectable(t)
                     /\ <<t.my_id, ctx.input_output[t.my_id]>> \in ctx.connections

\* A connected input was dragged to another output than the one it was
\* connected to, and is now connected to that one.
C27_Witness ==
    \E i \in DOMAIN tried :
        LET t == tried[i]
        IN  /\ DraggedFromConnectedInput(t)
            /\ Contains(ctx.inputs, t.my_id)
            /\ ctx.input_output[t.my_id] # t.start.input_output[t.my_id]
            /\ ctx.input_output[t.my_id] \in t.under_mouse

(***************************************************************************)
(* is_order_valid on any sequence of references to the nodes of a graph.   *)
(***************************************************************************)
\* The graphs a caller builds: n nodes of one name and payload added, and
\* a list of dependencies between them specified.
RECURSIVE AddFrom(_, _)
AddFrom(g, n) == IF n = 0 THEN g ELSE AddFrom(add(g, Node("N", Unit)), n - 1)
PairLists(n, len) == UNION {[1..m -> Pairs(n)] : m \in 0..len}
Graphs ==
    UNION { {specify_dependencies(AddFrom(<<>>, n), deps) : deps \in PairLists(n, MaxSeqDeps)} :
            n \in 0..MaxSeqNodes }

\* The vectors of at most MaxSeqLen references to nodes of a graph of n
\* nodes, complete or not, a node standing in a vector any number of times.
NodeSequences(n) == UNION {[1..m -> 1..n] : m \in 0..MaxSeqLen}

InitSequences ==
    /\ nodes \in Graphs
    /\ order = NoOrder
    /\ indices = NoOrder
    /\ valid = "unset"
    /\ ctx = EmptyContext
    /\ current_id = FirstId
    /\ pass = NoPass
    /\ mouse_down = FALSE
    /\ tried = <<>>
    /\ rctx = <<>>
    /\ TimelineAtRest
    /\ ValueAtRest

\* g.is_order_valid(&order) for a vector the caller has put together.
CheckSequence ==
    /\ valid = "unset"
    /\ \E ord \in NodeSequences(Len(nodes)) :
          /\ order' = [status |-> "ok", list |-> ord]
          /\ valid' = IF is_order_valid(nodes, ord) THEN "true" ELSE "false"
    /\ UNCHANGED <<nodes, indices>>
    /\ UNCHANGED engine_vars

NextSequences == CheckSequence

SpecSequences == InitSequences /\ [][NextSequences]_vars

\* C28: is_order_valid returns true on a sequence of nodes of the graph
\* exactly when every index in the depends_on list of the node at each
\* position k is the index of a node at a position before k, the nodes
\* being told apart by identity (their place in the graph) and not by
\* name or payload.
C28_ValidExactlyWhenDependenciesEarlier ==
    valid # "unset" =>
       (valid = "true" <=>
           \A k \in DOMAIN order.list :
              \A d \in Range(nodes[order.list[k]].depends_on) :
                 \E m \in 1..(k - 1) : order.list[m] = d)

\* A sequence was found invalid in which the node a dependency names is
\* missing, another node of the same name and payload standing before the
\* dependent.
C28_Witness ==
    /\ valid = "false"
    /\ Len(order.list) = 2
    /\ \A d \in Range(nodes[order.list[1]].depends_on) : FALSE
    /\ \E d \in Range(nodes[order.list[2]].depends_on) :
          /\ d # order.list[1]
          /\ nodes[d].name = nodes[order.list[1]].name
          /\ nodes[d].value = nodes[order.list[1]].value

\* C29: in every state the editor reaches the graph the context has built
\* from its connections is acyclic (no block depends on itself, directly or
\* through other blocks), the rebuild has returned, and graph_order is a
\* valid order of the graph.
C29_GraphAcyclic ==
    /\ Acyclic(ctx.graph)
    /\ ~ctx.aborted
    /\ Len(ctx.graph_order) = Len(ctx.graph)
    /\ is_order_valid(ctx.graph, ctx.graph_order)

\* No input is wired to an output of its own block.
NoSelfWiring ==
    \A k \in DOMAIN ctx.graph : k \notin Range(ctx.graph[k].depends_on)

\* The rebuild of the graph has not returned.
RebuildOverflowed == ctx.aborted

(***************************************************************************)
(* calculate_order and calculate_order_indices on one graph.               *)
(***************************************************************************)
\* let indices = g.calculate_order_indices();
CalculateOrderIndices ==
    /\ indices.status = "none"
    /\ indices' = calculate_order_indices(nodes)
    /\ UNCHANGED <<nodes, order, valid>>
    /\ UNCHANGED engine_vars

NextOrders == CalculateOrder \/ CalculateOrderIndices

SpecOrders == InitSequences /\ [][NextOrders]_vars

\* The two lists name the same nodes at the same positions, and the list
\* of indices holds every position of the graph once (with the code's
\* counting from 0, it is a permutation of 0..n-1).
SameOrder ==
    /\ Len(indices.list) = Len(order.list)
    /\ \A k \in DOMAIN order.list : indices.list[k] = order.list[k]
    /\ Len(indices.list) = Len(nodes)
    /\ Range(indices.list) = DOMAIN nodes

\* C30: on every graph calculate_order_indices and calculate_order return,
\* the index at each position of the one is the index of the node at that
\* position of the other, and the indices are a permutation of the graph's.
C30_OrdersAgree ==
    (order.status # "none" /\ indices.status # "none") =>
        /\ order.status = "ok"
        /\ indices.status = "ok"
        /\ SameOrder

\* Where the two calls return they agree, and the one returns exactly when
\* the other does.
AgreeWhereReturned ==
    (order.status # "none" /\ indices.status # "none") =>
        /\ order.status = indices.status
        /\ order.status = "ok" => SameOrder

====
